---- MODULE Spec2Model ----
(***************************************************************************)
(* A model of convoy's macro-annotated C++ parser                          *)
(* (src/src/codegen/cpp/parser.py).                                        *)
(*                                                                         *)
(* Text.  A Python `str` is modelled as a sequence of lexical tokens: a    *)
(* word (an identifier or keyword, `\w+`) is one token, and every          *)
(* punctuation character and the blank " " is a token of its own ("::" is  *)
(* one token, so that it differs from the single colon).  The string       *)
(* methods the parser uses (split, strip, replace, join, `in`) are         *)
(* operators over such sequences, written to do what the Python method     *)
(* does.  `None` is the empty sequence of an optional, `Some(s)` the       *)
(* one-element sequence <<s>>.                                             *)
(***************************************************************************)
EXTENDS Integers, Sequences, FiniteSets, TLC

None == <<>>
Some(s) == <<s>>
IsNone(o) == Len(o) = 0
Val(o) == o[1]

SP == " "

\* `c in s` for a one-token needle.
HasTok(s, c) == \E k \in 1..Len(s) : s[k] = c

\* Index of the first occurrence of token c in s (0 when absent).
FirstIdx(s, c) ==
    IF HasTok(s, c)
    THEN CHOOSE k \in 1..Len(s) : s[k] = c /\ \A j \in 1..(k - 1) : s[j] # c
    ELSE 0

\* s.split(c, 1): a list of one or two strings.
SplitAt(s, k) ==
    IF k = 0 THEN <<s>> ELSE <<SubSeq(s, 1, k - 1), SubSeq(s, k + 1, Len(s))>>
Split1(s, c) == SplitAt(s, FirstIdx(s, c))

\* s.split(c): split at every occurrence of the one-token separator.
RECURSIVE SplitAll(_, _)
SplitAll(s, c) ==
    IF ~HasTok(s, c) THEN <<s>>
    ELSE <<Split1(s, c)[1]>> \o SplitAll(Split1(s, c)[2], c)

\* s.strip(c): drop every leading and every trailing token c.
RECURSIVE LStrip(_, _)
LStrip(s, c) == IF Len(s) > 0 /\ s[1] = c THEN LStrip(Tail(s), c) ELSE s
RECURSIVE RStrip(_, _)
RStrip(s, c) ==
    IF Len(s) > 0 /\ s[Len(s)] = c THEN RStrip(SubSeq(s, 1, Len(s) - 1), c) ELSE s
StripTok(s, c) == RStrip(LStrip(s, c), c)
\* s.strip(): whitespace.
Strip(s) == StripTok(s, SP)

\* s.replace(", ", ","): left to right, non-overlapping.
RECURSIVE DropSpaceAfterComma(_)
DropSpaceAfterComma(s) ==
    IF Len(s) = 0 THEN <<>>
    ELSE IF Len(s) >= 2 /\ s[1] = "," /\ s[2] = SP
         THEN <<",">> \o DropSpaceAfterComma(SubSeq(s, 3, Len(s)))
         ELSE <<s[1]>> \o DropSpaceAfterComma(Tail(s))

\* s.replace(",", ", ")
RECURSIVE AddSpaceAfterComma(_)
AddSpaceAfterComma(s) ==
    IF Len(s) = 0 THEN <<>>
    ELSE IF s[1] = "," THEN <<",", SP>> \o AddSpaceAfterComma(Tail(s))
         ELSE <<s[1]>> \o AddSpaceAfterComma(Tail(s))

\* s.replace(w, "") for a one-token w.
RECURSIVE RemoveTok(_, _)
RemoveTok(s, w) ==
    IF Len(s) = 0 THEN <<>>
    ELSE IF s[1] = w THEN RemoveTok(Tail(s), w)
         ELSE <<s[1]>> \o RemoveTok(Tail(s), w)

\* sep.join(parts)
RECURSIVE Join(_, _)
Join(parts, sep) ==
    IF Len(parts) = 0 THEN <<>>
    ELSE IF Len(parts) = 1 THEN parts[1]
         ELSE parts[1] \o sep \o Join(Tail(parts), sep)

\* Index of x in list l (0 when absent): `x in l` and l.index(x).
IndexOf(l, x) ==
    IF \E k \in 1..Len(l) : l[k] = x
    THEN CHOOSE k \in 1..Len(l) : l[k] = x /\ \A j \in 1..(k - 1) : l[j] # x
    ELSE 0
InList(l, x) == IndexOf(l, x) # 0

\* Convoy.nested_split(s, sep, openers="<", closers=">", n): split s at the
\* occurrences of sep that lie outside every <...> pair, at most n times
\* (n < 0: no limit).
RECURSIVE NestedSplitFrom(_, _, _, _, _)
NestedSplitFrom(s, sep, n, depth, cur) ==
    IF Len(s) = 0 THEN <<cur>>
    ELSE IF s[1] = sep /\ depth = 0 /\ n # 0
         THEN <<cur>> \o NestedSplitFrom(Tail(s), sep, n - 1, 0, <<>>)
         ELSE NestedSplitFrom(Tail(s), sep, n,
                 IF s[1] = "<" THEN depth + 1
                 ELSE IF s[1] = ">" /\ depth > 0 THEN depth - 1 ELSE depth,
                 Append(cur, s[1]))
nested_split(s, sep, n) == NestedSplitFrom(s, sep, n, 0, <<>>)

Map(f(_), l) == [k \in 1..Len(l) |-> f(l[k])]

\* CPParser._split_template_list: "typename T,typename U" -> ["T", "U"].
\* (The element [1] of a declaration without a blank raises IndexError; the
\* declarations drawn here all have the form `typename X`.)
SplitTemplateVar(var) == nested_split(var, SP, 1)[2]
split_template_list(tlist) == Map(SplitTemplateVar, SplitAll(DropSpaceAfterComma(tlist), ","))

(***************************************************************************)
(* The class model: Identifier, Field, FieldCollection, Class.             *)
(* An operation that can end the run returns a record whose field st is    *)
(* "ok", "fatal" (Convoy.exit_error) or the name of the Python exception.  *)
(***************************************************************************)

\* Identifier (dataclass): identifier, name, ctype, templdecl, inheritance.
MkIdentifier(identifier, name, ctype, templdecl, inheritance) ==
    [identifier |-> identifier, name |-> name, ctype |-> ctype,
     templdecl |-> templdecl, inheritance |-> inheritance]

\* Field (dataclass): name, visibility, vtype, modifers, groups.
MkField(name, visibility, vtype, modifers, groups) ==
    [name |-> name, visibility |-> visibility, vtype |-> vtype,
     modifers |-> modifers, groups |-> groups]

\* FieldCollection(): the ordered list and the per_name dict (the per_type,
\* per_modifier and per_group indexes are filled from the same field and
\* never read by the parser; they are left out).
EmptyFieldCollection == [fields |-> <<>>, per_name |-> [n \in {} |-> 0]]

\* An add that does not look the name up.
FieldCollectionAddUnchecked(fc, f) ==
    [st |-> "ok",
     fc |-> [fields |-> Append(fc.fields, f),
             per_name |-> [n \in (DOMAIN fc.per_name) \cup {f.name} |->
                              IF n = f.name THEN f ELSE fc.per_name[n]]]]

\* FieldCollection.add: fatal when the name is already a key of per_name.
FieldCollectionAdd(fc, f) ==
    IF f.name \in DOMAIN fc.per_name
    THEN [st |-> "fatal", fc |-> fc]
    ELSE [st |-> "ok",
          fc |-> [fields |-> Append(fc.fields, f),
                  per_name |-> [n \in (DOMAIN fc.per_name) \cup {f.name} |->
                                   IF n = f.name THEN f ELSE fc.per_name[n]]]]

\* re.sub(rf"\b{t1}\b", t2, vtype): every whole-word occurrence of t1 is
\* replaced by t2.  A word is one token, so an occurrence of the token
\* sequence t1 is a whole-word occurrence.
RECURSIVE ReSubWord(_, _, _)
ReSubWord(t1, t2, s) ==
    IF Len(s) = 0 \/ Len(t1) = 0 THEN s
    ELSE IF Len(s) >= Len(t1) /\ SubSeq(s, 1, Len(t1)) = t1
         THEN t2 \o ReSubWord(t1, t2, SubSeq(s, Len(t1) + 1, Len(s)))
         ELSE <<s[1]>> \o ReSubWord(t1, t2, Tail(s))

\* Identifier.template_arguments_instantiation_pairs.
\* st = "IndexError" when the identifier holds no "<", "fatal" when the
\* two lists differ in length.
template_arguments_instantiation_pairs(id, templargs) ==
    LET Check(templvars1, templvars2) ==
            [st |-> IF Len(templvars1) # Len(templvars2) THEN "fatal" ELSE "ok",
             v1 |-> templvars1, v2 |-> templvars2]
        Of(parts) ==
            IF Len(parts) < 2 THEN [st |-> "IndexError", v1 |-> <<>>, v2 |-> <<>>]
            ELSE Check(SplitAll(DropSpaceAfterComma(Strip(StripTok(parts[2], ">"))), ","),
                       SplitAll(DropSpaceAfterComma(templargs), ","))
    IN  Of(Split1(id.identifier, "<"))

\* The loop of Identifier.template_matches (lines 129-136): the score, -1
\* for a disqualified candidate.
RECURSIVE TemplateMatchesFrom(_, _, _, _, _)
TemplateMatchesFrom(v1, v2, templdecl, k, matches) ==
    IF k > Len(v1) THEN matches
    ELSE IF v1[k] = v2[k] THEN TemplateMatchesFrom(v1, v2, templdecl, k + 1, matches + 1)
    ELSE IF ~InList(templdecl, v1[k]) THEN -1
    ELSE TemplateMatchesFrom(v1, v2, templdecl, k + 1, matches)

\* Identifier.template_matches.
template_matches(id, templargs) ==
    LET Score(pr) ==
            IF pr.st # "ok" THEN [st |-> pr.st, n |-> 0]
            ELSE [st |-> "ok",
                  n |-> TemplateMatchesFrom(pr.v1, pr.v2,
                            split_template_list(Val(id.templdecl)), 1, 0)]
    IN  IF IsNone(id.templdecl) THEN [st |-> "fatal", n |-> 0]
        ELSE Score(template_arguments_instantiation_pairs(id, templargs))

\* Class (dataclass): id, parents, namespaces, fields, file.  `parents` holds
\* references to Class objects (see the heap below).
MkClass(id, parents, nss, fields, file) ==
    [id |-> id, parents |-> parents, namespaces |-> nss,
     fields |-> fields, file |-> file]

\* An inner loop that copies the fields without rewriting their types.
RECURSIVE InstantiateFieldsVerbatim(_, _, _, _, _)
InstantiateFieldsVerbatim(src, k, t1, t2, acc) ==
    LET Next1(r) == IF r.st # "ok" THEN r
                    ELSE InstantiateFieldsVerbatim(src, k + 1, t1, t2, r.fc)
    IN  IF k > Len(src) THEN [st |-> "ok", fc |-> acc]
        ELSE Next1(FieldCollectionAdd(acc, src[k]))

\* The inner loop of Class.instantiate (lines 182-185): every field of the
\* generic, its type rewritten for one (t1, t2) pair, is added to `fields`.
RECURSIVE InstantiateFields(_, _, _, _, _)
InstantiateFields(src, k, t1, t2, acc) ==
    LET Next1(r) == IF r.st # "ok" THEN r
                    ELSE InstantiateFields(src, k + 1, t1, t2, r.fc)
    IN  IF k > Len(src) THEN [st |-> "ok", fc |-> acc]
        ELSE Next1(FieldCollectionAdd(acc,
                 MkField(src[k].name, src[k].visibility,
                         ReSubWord(t1, t2, src[k].vtype),
                         src[k].modifers, src[k].groups)))

\* The loop over the (t1, t2) pairs of Class.instantiate (lines 166-185).
RECURSIVE InstantiatePairs(_, _, _, _, _, _, _)
InstantiatePairs(cls, v1, v2, templdecl, k, fields, tdecl) ==
    LET Next1(r) == IF r.st # "ok" THEN [st |-> r.st, fc |-> fields, tdecl |-> tdecl]
                    ELSE InstantiatePairs(cls, v1, v2, templdecl, k + 1, r.fc, tdecl)
    IN  IF k > Len(v1) THEN [st |-> "ok", fc |-> fields, tdecl |-> tdecl]
        ELSE IF v1[k] = v2[k]
             THEN InstantiatePairs(cls, v1, v2, templdecl, k + 1, fields,
                     IF InList(templdecl, v1[k])
                     THEN Append(tdecl,
                            SplitAll(DropSpaceAfterComma(Val(cls.id.templdecl)), ",")
                                [IndexOf(templdecl, v1[k])])
                     ELSE tdecl)
        ELSE IF ~InList(templdecl, v1[k])
             THEN [st |-> "fatal", fc |-> fields, tdecl |-> tdecl]
        ELSE Next1(InstantiateFields(cls.fields.fields, 1, v1[k], v2[k], fields))

\* Class.instantiate(templargs): a new Class value, or a fatal error.
instantiate(cls, templargs) ==
    LET Build(r, tdecl) ==
            IF r.st # "ok" THEN [st |-> r.st, cls |-> cls]
            ELSE [st |-> "ok",
                  cls |-> MkClass(
                      MkIdentifier(cls.id.name \o <<"<">> \o templargs \o <<">">>,
                                   cls.id.name, cls.id.ctype,
                                   IF Len(tdecl) > 0 THEN Some(tdecl) ELSE None,
                                   cls.id.inheritance),
                      cls.parents, cls.namespaces, r.fc, cls.file)]
        Loop(r) == Build(r, Join(r.tdecl, <<",", SP>>))
        Pairs(pr) ==
            IF pr.st # "ok" THEN [st |-> pr.st, cls |-> cls]
            ELSE Loop(InstantiatePairs(cls, pr.v1, pr.v2,
                         split_template_list(Val(cls.id.templdecl)), 1,
                         EmptyFieldCollection, <<>>))
    IN  IF IsNone(cls.id.templdecl) THEN [st |-> "fatal", cls |-> cls]
        ELSE Pairs(template_arguments_instantiation_pairs(cls.id, templargs))

\* CPParser.__parse_identifier for a class or struct, from the three groups
\* of the header pattern (group 1: template declaration, group 2: the
\* qualified name, group 3: the inheritance clause); the header text has had
\* ", " replaced by "," and "final" removed before the match (line 581).
parse_identifier(clstype, g1, g2, g3) ==
    LET Result(templdecl, identifier, inheritance) ==
            MkIdentifier(identifier, Split1(identifier, "<")[1], clstype, templdecl,
                IF IsNone(inheritance) THEN <<>>
                ELSE Map(Strip, nested_split(
                        Strip(RemoveTok(RemoveTok(RemoveTok(Val(inheritance),
                            "public"), "private"), "protected")), ",", -1)))
        Synth(templdecl, ident1, inheritance) ==
            Result(templdecl,
                   IF ~IsNone(templdecl) /\ ~HasTok(ident1, "<")
                   THEN ident1 \o <<"<">>
                        \o Join(split_template_list(Val(templdecl)), <<",", SP>>)
                        \o <<">">>
                   ELSE ident1,
                   inheritance)
        Colon(templdecl, ident0, colon) ==
            IF colon = 0 THEN Synth(templdecl, ident0, g3)
            ELSE Synth(templdecl, Strip(SubSeq(ident0, 1, colon - 1)),
                       Some(Strip(SubSeq(ident0, colon + 1, Len(ident0)))))
        Ident(templdecl, ident0) == Colon(templdecl, ident0, FirstIdx(ident0, ":"))
    IN  Ident(IF IsNone(g1) \/ Len(Val(g1)) = 0 THEN None ELSE g1,
              AddSpaceAfterComma(Strip(g2)))

(***************************************************************************)
(* The field extractor: the body scan of CPParser.__create_class.          *)
(* The control macros are configuration (ControlMacros); the model fixes   *)
(* one configuration.                                                      *)
(***************************************************************************)
MacroDeclare == "DECLARE"
MacroGroupBegin == "GROUP_BEGIN"
MacroGroupEnd == "GROUP_END"
MacroIgnoreBegin == "IGNORE_BEGIN"
MacroIgnoreEnd == "IGNORE_END"

Punct == {SP, "\n", "{", "}", "(", ")", ";", ":", "::", "<", ">", ",", "=", "*", "&", "\""}
IsWord(tok) == tok \notin Punct

\* The modifier alternatives of the field pattern, in group order (1..13).
ModifierGroups == <<"static", "const", "constexpr", "inline", "mutable",
                    "thread_local", "register", "extern", "alignas",
                    "[[nodiscard]]", "[[maybe_unused]]", "[[deprecated]]",
                    "[[no_unique_address]]">>
IsModifier(tok) == \E g \in 1..Len(ModifierGroups) : ModifierGroups[g] = tok

\* s.count(c) for a one-token c.
RECURSIVE CountTok(_, _)
CountTok(s, c) ==
    IF Len(s) = 0 THEN 0
    ELSE (IF s[1] = c THEN 1 ELSE 0) + CountTok(Tail(s), c)

\* `a b` in line for two adjacent tokens (f"{look_for}:" in line).
HasPair(s, a, b) == \E k \in 1..(Len(s) - 1) : s[k] = a /\ s[k + 1] = b

\* [match.group(g) for g in range(1, 14) if match.group(g) is not None]:
\* the modifiers present, in group order.
RECURSIVE ModifiersFrom(_, _)
ModifiersFrom(mods, g) ==
    IF g > Len(ModifierGroups) THEN <<>>
    ELSE (IF HasTok(mods, ModifierGroups[g]) THEN <<ModifierGroups[g]>> ELSE <<>>)
         \o ModifiersFrom(mods, g + 1)

\* End of the leading run `(modifier \s+)*` of a line: the index of the first
\* token after it.
RECURSIVE SkipModifiers(_, _)
SkipModifiers(line, k) ==
    IF k + 1 <= Len(line) /\ IsModifier(line[k]) /\ line[k + 1] = SP
    THEN SkipModifiers(line, k + 2)
    ELSE k

\* Inside the declared type: outside every <...> only words and "::" occur.
RECURSIVE AngleDepthOK(_, _)
AngleDepthOK(t, depth) ==
    IF Len(t) = 0 THEN TRUE
    ELSE IF t[1] = "<" THEN AngleDepthOK(Tail(t), depth + 1)
    ELSE IF t[1] = ">" THEN AngleDepthOK(Tail(t), IF depth > 0 THEN depth - 1 ELSE 0)
    ELSE IF depth = 0 /\ ~(IsWord(t[1]) \/ t[1] = "::") THEN FALSE
    ELSE AngleDepthOK(Tail(t), depth)

\* The declared-type part of the field pattern (group 14):
\*   (?:\w+(?:<.*>)?::)*\w+(?:<.*>)?(?:\s*[&\*]\s*)?
\* over tokens: a word, then words, "::" and <...> argument lists, then at
\* most one pointer or reference mark with the blanks around it.
TypeMatches(t) ==
    LET Check(core, rest) ==
            /\ Len(core) > 0
            /\ IsWord(core[1])
            /\ (IsWord(core[Len(core)]) \/ core[Len(core)] = ">")
            /\ \A k \in 1..(Len(core) - 1) : ~(IsWord(core[k]) /\ IsWord(core[k + 1]))
            /\ AngleDepthOK(core, 0)
            /\ CountTok(rest, "*") + CountTok(rest, "&") <= 1
            /\ \A k \in 1..Len(rest) : rest[k] \in {SP, "*", "&"}
        Core(core) == Check(core, SubSeq(t, Len(core) + 1, Len(t)))
        Marks(marks) ==
            IF marks = {} THEN Core(RStrip(t, SP))
            ELSE Core(RStrip(SubSeq(t, 1,
                        (CHOOSE k \in marks : \A j \in marks : k <= j) - 1), SP))
    IN  Marks({k \in 1..Len(t) : t[k] \in {"*", "&"}})

\* re.match(self.__field_pattern, line) for a line that ends with its ";":
\* modifiers, declared type, member name, an optional brace initialiser,
\* and no parameter list before the ";".  ok = FALSE when the line does not
\* match.
FieldMatch(line) ==
    LET NoMatch == [ok |-> FALSE, modifiers |-> <<>>, vtype |-> <<>>, vname |-> ""]
        Type(start, head, vtype0) ==
            IF TypeMatches(vtype0)
            THEN [ok |-> TRUE,
                  modifiers |-> ModifiersFrom(SubSeq(line, 1, start - 1), 1),
                  vtype |-> IF HasTok(vtype0, "*") \/ HasTok(vtype0, "&") THEN vtype0
                            ELSE RStrip(vtype0, SP),
                  vname |-> head[Len(head)]]
            ELSE NoMatch
        Name(start, head) ==
            IF Len(head) > start /\ IsWord(head[Len(head)]) /\ ~HasTok(head, "(")
            THEN Type(start, head, SubSeq(head, start, Len(head) - 1))
            ELSE NoMatch
        \* the optional `{...}` before the ";"
        Init1(pre) ==
            IF Len(pre) > 0 /\ pre[Len(pre)] = "}" /\ HasTok(line, "{")
            THEN Name(SkipModifiers(line, 1),
                      RStrip(SubSeq(line, 1, FirstIdx(line, "{") - 1), SP))
            ELSE Name(SkipModifiers(line, 1), pre)
    IN  IF Len(line) = 0 \/ line[Len(line)] # ";" THEN NoMatch
        ELSE Init1(RStrip(SubSeq(line, 1, Len(line) - 1), SP))

\* Group (dataclass): name, properties.  Equality and hash are by name.
MkGroup(name, properties) == [name |-> name, properties |-> properties]

\* list({g.name: g for g in groups}.values()): one Group per name, at the
\* position of the name's first occurrence, holding its last occurrence.
RECURSIVE DedupGroupsFrom(_, _, _)
DedupGroupsFrom(groups, k, acc) ==
    IF k > Len(groups) THEN acc
    ELSE IF \E j \in 1..Len(acc) : acc[j].name = groups[k].name
         THEN DedupGroupsFrom(groups, k + 1,
                 [j \in 1..Len(acc) |->
                     IF acc[j].name = groups[k].name THEN groups[k] ELSE acc[j]])
         ELSE DedupGroupsFrom(groups, k + 1, Append(acc, groups[k]))
\* The open groups as they are, a name as often as it is open.
DedupGroupsAll(groups) == groups
DedupGroups(groups) == DedupGroupsFrom(groups, 1, <<>>)

\* The scan state of __create_class (lines 682-689).
InitialScan(ctype) ==
    [st |-> "ok", groups |-> <<>>, fields |-> EmptyFieldCollection,
     scope_counter |-> 0, ignore |-> FALSE,
     visibility |-> IF ctype = "class" THEN "private" ELSE "public"]

\* check_group_macros (lines 691-718).
check_group_macros(sc, line, reserved_group_names) ==
    LET Push(properties) ==
            IF properties[1] = <<>> THEN [sc EXCEPT !.st = "fatal"]
            ELSE IF InList(reserved_group_names, properties[1])
            THEN [sc EXCEPT !.st = "fatal"]
            ELSE [sc EXCEPT !.groups = Append(@, MkGroup(properties[1], Tail(properties)))]
    IN  IF HasTok(line, MacroGroupBegin)
        THEN IF Len(line) >= 3 /\ line[1] = MacroGroupBegin /\ line[2] = "("
                /\ HasTok(line, ")")
             THEN Push(SplitAll(DropSpaceAfterComma(
                          RemoveTok(SubSeq(line, 3, FirstIdx(line, ")") - 1), "\"")), ","))
             ELSE [sc EXCEPT !.st = "fatal"]
        ELSE IF HasTok(line, MacroGroupEnd)
        THEN IF Len(sc.groups) = 0 THEN [sc EXCEPT !.st = "IndexError"]
             ELSE [sc EXCEPT !.groups = SubSeq(@, 1, Len(@) - 1)]
        ELSE sc

\* check_ignore_macros (lines 720-728): the new flag and the returned value.
check_ignore_macros(ignore, line) ==
    IF HasTok(line, MacroIgnoreEnd) THEN [ignore |-> FALSE, ret |-> TRUE]
    ELSE IF ignore \/ HasTok(line, MacroIgnoreBegin) THEN [ignore |-> TRUE, ret |-> FALSE]
    ELSE [ignore |-> ignore, ret |-> TRUE]

\* check_privacy for the three access specifiers, in the order of the calls
\* (lines 747-754): the last one found on the line wins.
check_privacy(visibility, line) ==
    IF HasPair(line, "protected", ":") THEN "protected"
    ELSE IF HasPair(line, "public", ":") THEN "public"
    ELSE IF HasPair(line, "private", ":") THEN "private"
    ELSE visibility

\* A line with one "=" is rewritten into brace-init form (lines 758-760).
RewriteInitializer(line) ==
    Strip(Split1(line, "=")[1]) \o <<"{">>
    \o Strip(StripTok(Split1(line, "=")[2], ";")) \o <<"}", ";">>

\* One iteration of the body loop of __create_class (lines 730-782).
BodyStep(sc0, rawline, reserved_group_names) ==
    LET Added(sc, added) ==
            IF added.st # "ok" THEN [sc EXCEPT !.st = "fatal"]
            ELSE [sc EXCEPT !.fields = added.fc]
        Matched(sc, match) ==
            IF ~match.ok THEN sc
            ELSE Added(sc, FieldCollectionAdd(sc.fields,
                     MkField(match.vname, sc.visibility,
                             AddSpaceAfterComma(match.vtype),
                             match.modifiers, DedupGroups(sc.groups))))
        Candidate(sc, line, count) ==
            IF count > 1 THEN sc
            ELSE Matched(sc, FieldMatch(IF count = 1 THEN RewriteInitializer(line)
                                        ELSE line))
        Scoped(sc, line) ==
            IF sc.scope_counter < 0 THEN [sc EXCEPT !.st = "fatal"]
            ELSE IF HasTok(line, "using") \/ sc.scope_counter # 1 THEN sc
            ELSE Candidate([sc EXCEPT !.visibility = check_privacy(@, line)],
                           line, CountTok(line, "="))
        Ignored(sc, line, ig) ==
            IF ~ig.ret THEN [sc EXCEPT !.ignore = ig.ignore]
            ELSE Scoped([sc EXCEPT !.ignore = ig.ignore,
                                   !.scope_counter =
                                       @ + (IF HasTok(line, "{") THEN 1 ELSE 0)
                                         - (IF HasTok(line, "}") THEN 1 ELSE 0)],
                        line)
        Grouped(sc, line) ==
            IF sc.st # "ok" THEN sc
            ELSE Ignored(sc, line, check_ignore_macros(sc.ignore, line))
        Stripped(line) ==
            Grouped(check_group_macros(sc0, line, reserved_group_names), line)
    IN  Stripped(Strip(rawline))

\* The end of a body whose open ranges are not looked at.
BodyEndUnchecked(sc) == sc

\* The two checks after the body loop (lines 784-788).
BodyEnd(sc) ==
    IF sc.ignore THEN [sc EXCEPT !.st = "fatal"]
    ELSE IF Len(sc.groups) > 0 THEN [sc EXCEPT !.st = "fatal"]
    ELSE sc

\* The body loop and the two checks after it (lines 730-788).
RECURSIVE ScanBodyFrom(_, _, _, _)
ScanBodyFrom(sc, body, k, reserved_group_names) ==
    IF sc.st # "ok" THEN sc
    ELSE IF k > Len(body) THEN BodyEnd(sc)
    ELSE ScanBodyFrom(BodyStep(sc, body[k], reserved_group_names), body, k + 1,
                      reserved_group_names)
ScanBody(ctype, body, reserved_group_names) ==
    ScanBodyFrom(InitialScan(ctype), body, 1, reserved_group_names)

(***************************************************************************)
(* The resolver: CPParser.parse and its nested parse_class.                *)
(*                                                                         *)
(* Class objects are mutable Python objects shared by reference between    *)
(* the parser's cache, the returned collection and the `parents` lists, so *)
(* they live in a heap (a sequence; a reference is an index into it).      *)
(* The recursion of parse_class is an explicit stack of frames.            *)
(***************************************************************************)
VARIABLES
    clinfos,   \* _ClassInfoCollection.classes, the scanner's output, in scan order
    relaxed,   \* the argument resolve_hierarchies_with_inheritance of parse()
    modes,     \* that argument in each call of parse() so far
    heap,      \* the Class objects constructed so far
    cache,     \* self.__cache.classes: references, in insertion order
    classes,   \* the local `classes` of parse(): references, in insertion order
    stack,     \* the active calls of parse_class, innermost last
    pc,        \* "idle", "promote", "done", or how the run ended
    idx,       \* position of the loop `for clinfo in clinfos.classes`
    heapBase,  \* Len(heap) when the current run of parse() began
    results,   \* the collections returned by the runs of parse() so far
    lines,     \* __find_entities: self.__code.split(line_delm)
    index,     \* __find_entities: the position in `lines` (counted from 0)
    namespaces, \* __find_entities: the one list every _ClassInfo refers to
    enums,     \* __find_entities: the names given to the enum declare macro
    error,     \* the message of the scanner's Convoy.exit_error, "" if none
    call,      \* a direct call of a method of the class model: its arguments
    ret,       \* what the call returned
    bodyScan,  \* __create_class: the locals of the body loop and its position
    args,      \* git.py, for_each.py: the Namespace parse_arguments() returned
    env,       \* what the script finds outside itself: repository, directories
    work,      \* the script's module-level locals and the position of its loops
    executed   \* the commands handed to Convoy.run_process*, in order

resolverVars == <<clinfos, relaxed, modes, heap, cache, classes, stack, pc, idx, heapBase, results>>
scanVars == <<lines, index, namespaces, enums, error>>
callVars == <<call, ret, bodyScan>>
toolVars == <<args, env, work, executed>>
vars == <<resolverVars, scanVars, callVars, toolVars>>

\* No script is running.
NoScript ==
    /\ args = None
    /\ env = None
    /\ work = None
    /\ executed = <<>>

\* Bound on the depth of the parse_class recursion; it stands for the
\* interpreter's recursion limit, past which Python raises RecursionError.
RecursionLimit == 5
\* Number of times parse() is called on one parser.
MaxRuns == 2
\* Number of entities in the scanned text.
MaxEntities == 3

\* reserved_group_names, an argument of parse().
ReservedGroupNames == << <<"internal">> >>

\* _ClassInfo (dataclass).
MkClassInfo(id, file, nss, body, macro_args, has_declare_macro) ==
    [id |-> id, file |-> file, namespaces |-> nss, body |-> body,
     macro_args |-> macro_args, has_declare_macro |-> has_declare_macro]

\* per_identifier of a ClassCollection given as a list of references:
\* the reference stored under `identifier`, 0 when it is not a key.
PerIdentifier(h, refs, identifier) ==
    IF \E k \in 1..Len(refs) : h[refs[k]].id.identifier = identifier
    THEN refs[CHOOSE k \in 1..Len(refs) : h[refs[k]].id.identifier = identifier]
    ELSE 0

\* A lookup that finds no entity.
InfoPerIdentifierNone(infos, identifier) == 0

\* clinfos.per_identifier: the index of the entity, 0 when it is not a key.
InfoPerIdentifier(infos, identifier) ==
    IF \E k \in 1..Len(infos) : infos[k].id.identifier = identifier
    THEN CHOOSE k \in 1..Len(infos) : infos[k].id.identifier = identifier
    ELSE 0

\* clinfos.per_name[name]: the indices of the entities of that bare name,
\* in scan order.
RECURSIVE InfoPerNameFrom(_, _, _)
InfoPerNameFrom(infos, name, k) ==
    IF k > Len(infos) THEN <<>>
    ELSE (IF infos[k].id.name = name THEN <<k>> ELSE <<>>)
         \o InfoPerNameFrom(infos, name, k + 1)
InfoPerName(infos, name) == InfoPerNameFrom(infos, name, 1)

\* The head of parse_class (lines 323-340): the parent identifiers to
\* resolve.  st = "none" is the `return None` of an unmarked entity.
ParentIds(clinfo, override_declare_macro, rel) ==
    IF clinfo.has_declare_macro
    THEN IF Len(clinfo.macro_args) = 0 THEN [st |-> "fatal", pids |-> <<>>]
         ELSE IF clinfo.macro_args[1] # clinfo.id.name THEN [st |-> "fatal", pids |-> <<>>]
         ELSE [st |-> "ok",
               pids |-> IF rel THEN clinfo.id.inheritance ELSE Tail(clinfo.macro_args)]
    ELSE IF override_declare_macro
    THEN [st |-> "ok", pids |-> IF rel THEN clinfo.id.inheritance ELSE <<>>]
    ELSE [st |-> "none", pids |-> <<>>]

\* A frame of parse_class: the entity, its parent identifiers, the position
\* of the loop over them, the parents resolved so far, and, while a nested
\* call is active, needs_instantiation and templargs of the current parent.
MkFrame(ci, pids) ==
    [ci |-> ci, pids |-> pids, k |-> 1, parents |-> <<>>,
     needs_instantiation |-> FALSE, templargs |-> <<>>]

\* The candidate loop of lines 367-378: the entity to instantiate from
\* (0 for None), or the fatal error raised by template_matches.
RECURSIVE PickCandidateFrom(_, _, _, _, _, _)
PickCandidateFrom(infos, cands, templargs, k, pclinfo, max_matches) ==
    LET Scored(m) ==
            IF m.st # "ok" THEN [st |-> m.st, ci |-> 0]
            ELSE IF m.n >= max_matches
                 THEN PickCandidateFrom(infos, cands, templargs, k + 1, cands[k], m.n)
                 ELSE PickCandidateFrom(infos, cands, templargs, k + 1, pclinfo, max_matches)
    IN  IF k > Len(cands) THEN [st |-> "ok", ci |-> pclinfo]
        ELSE IF IsNone(infos[cands[k]].id.templdecl)
             THEN PickCandidateFrom(infos, cands, templargs, k + 1, pclinfo, max_matches)
             ELSE Scored(template_matches(infos[cands[k]].id, templargs))
PickCandidate(infos, pname, templargs) ==
    PickCandidateFrom(infos, InfoPerName(infos, pname), templargs, 1, 0, 0)

\* Lines 344-389 for one parent identifier: what the loop body does before
\* the recursive call.
\*   "cached"  the parent is taken from the cache (ref)
\*   "call"    parse_class is called on entity ci
\*   "skip"    errfn was Convoy.warning: the parent is dropped
\*   "fatal"   errfn was Convoy.exit_error
\*   "IndexError"  pid.split("<", 1)[1] of an identifier without "<" (line 348)
ResolveStep(h, cch, infos, rel, pid) ==
    LET Out(kind, ref, ci, ni, templargs) ==
            [kind |-> kind, ref |-> ref, ci |-> ci,
             needs_instantiation |-> ni, templargs |-> templargs]
        Err == IF rel THEN "skip" ELSE "fatal"
        Picked(templargs, pick) ==
            IF pick.st # "ok" THEN Out(pick.st, 0, 0, TRUE, templargs)
            ELSE IF pick.ci = 0 THEN Out(Err, 0, 0, TRUE, templargs)
            ELSE Out("call", 0, pick.ci, TRUE, templargs)
        Lookup(pname, templargs, ci) ==
            IF ci # 0 THEN Out("call", 0, ci, FALSE, templargs)
            ELSE IF ~HasTok(pid, "<") THEN Out(Err, 0, 0, TRUE, templargs)
            ELSE IF Len(InfoPerName(infos, pname)) = 0 THEN Out(Err, 0, 0, TRUE, templargs)
            ELSE Picked(templargs, PickCandidate(infos, pname, templargs))
        Parts(parts) ==
            IF Len(parts) < 2 THEN Out("IndexError", 0, 0, FALSE, <<>>)
            ELSE Lookup(parts[1], Strip(StripTok(parts[2], ">")),
                        InfoPerIdentifier(infos, pid))
        Cached(hit) ==
            IF hit # 0 THEN Out("cached", hit, 0, FALSE, <<>>)
            ELSE Parts(Split1(pid, "<"))
    IN  Cached(PerIdentifier(h, cch, pid))

\* CPParser.__create_class: the cached object when the identifier is in the
\* cache, else a new Class built from the scanned body and added to the cache.
create_class(h, cch, clinfo, parents) ==
    LET Built(sc) ==
            IF sc.st # "ok" THEN [st |-> sc.st, ref |-> 0, heap |-> h, cache |-> cch]
            ELSE [st |-> "ok", ref |-> Len(h) + 1,
                  heap |-> Append(h, MkClass(clinfo.id, parents, clinfo.namespaces,
                                             sc.fields, clinfo.file)),
                  cache |-> Append(cch, Len(h) + 1)]
        Cached(hit) ==
            IF hit # 0 THEN [st |-> "ok", ref |-> hit, heap |-> h, cache |-> cch]
            ELSE Built(ScanBody(clinfo.id.ctype, clinfo.body, ReservedGroupNames))
    IN  IF clinfo.id.ctype \notin {"class", "struct"}
        THEN [st |-> "fatal", ref |-> 0, heap |-> h, cache |-> cch]
        ELSE Cached(PerIdentifier(h, cch, clinfo.id.identifier))

\* The final pass of parse() (lines 414-428): every class of the result
\* receives, from each of its parents, the fields whose names it does not
\* hold yet.  The objects are updated in place, in the order of the result.
\* st is "fatal" when FieldCollection.add refuses a field.
\* A merge that adds every field of the parent, shadowed or not.
RECURSIVE MergeFieldsAll(_, _, _, _)
MergeFieldsAll(h, c, parent, k) ==
    LET Added(r) ==
            IF r.st # "ok" THEN [st |-> r.st, heap |-> h]
            ELSE MergeFieldsAll([h EXCEPT ![c].fields = r.fc], c, parent, k + 1)
    IN  IF k > Len(h[parent].fields.fields) THEN [st |-> "ok", heap |-> h]
        ELSE Added(FieldCollectionAdd(h[c].fields, h[parent].fields.fields[k]))
RECURSIVE MergeFields(_, _, _, _)
MergeFields(h, c, parent, k) ==
    LET Added(r) ==
            IF r.st # "ok" THEN [st |-> r.st, heap |-> h]
            ELSE MergeFields([h EXCEPT ![c].fields = r.fc], c, parent, k + 1)
    IN  IF k > Len(h[parent].fields.fields) THEN [st |-> "ok", heap |-> h]
        ELSE IF h[parent].fields.fields[k].name \in DOMAIN h[c].fields.per_name
             THEN MergeFields(h, c, parent, k + 1)
             ELSE Added(FieldCollectionAdd(h[c].fields, h[parent].fields.fields[k]))
\* A merge pass that inherits nothing.
MergeParentsNone(h, c, j) == [st |-> "ok", heap |-> h]
RECURSIVE MergeParents(_, _, _)
MergeParents(h, c, j) ==
    LET Merged(r) == IF r.st # "ok" THEN r ELSE MergeParents(r.heap, c, j + 1)
    IN  IF j > Len(h[c].parents) THEN [st |-> "ok", heap |-> h]
        ELSE Merged(MergeFields(h, c, h[c].parents[j], 1))
RECURSIVE MergeClasses(_, _, _)
MergeClasses(h, refs, n) ==
    LET Merged(r) == IF r.st # "ok" THEN r ELSE MergeClasses(r.heap, refs, n + 1)
    IN  IF n > Len(refs) THEN [st |-> "ok", heap |-> h]
        ELSE Merged(MergeParents(h, refs[n], 1))

\* The value of a Class object as the dataclass equality sees it: its
\* parents are compared by value, recursively.
RECURSIVE ClassValue(_, _)
ClassValue(h, ref) ==
    [h[ref] EXCEPT !.parents =
        [k \in 1..Len(h[ref].parents) |-> ClassValue(h, h[ref].parents[k])]]
\* The value of the returned ClassCollection (its list of classes).
CollectionValue(h, refs) == [k \in 1..Len(refs) |-> ClassValue(h, refs[k])]

(***************************************************************************)
(* The scanned texts the resolver is run on.  An entity is written in the  *)
(* form the scanner and the field extractor accept: the header on a line   *)
(* of its own, the opening brace on the next line, the declare macro call  *)
(* on a line of its own, one member per line, and the closing "};".        *)
(***************************************************************************)
sBase == <<"Base">>
sChild == <<"Child">>
sBox == <<"Box">>
sWrap == <<"Wrap">>
sBoxT == <<"Box", "<", "T", ">">>
sBoxInt == <<"Box", "<", "int", ">">>
sWrapT == <<"Wrap", "<", "T", ">">>
TypenameT == <<"typename", SP, "T">>

\* The arguments of the declare macro call on `line` (lines 526-531).
DeclareArgs(line) ==
    Map(Strip, nested_split(SubSeq(line, 3, FirstIdx(line, ")") - 1), ",", -1))

DeclareLine(name, parents) ==
    <<MacroDeclare, "(">> \o Join(<<name>> \o parents, <<",", SP>>) \o <<")">>

\* The inheritance clause `public P1,public P2` (the header has had ", "
\* replaced by ",").
RECURSIVE InheritanceText(_)
InheritanceText(parents) ==
    IF Len(parents) = 0 THEN <<>>
    ELSE <<"public", SP>> \o parents[1]
         \o (IF Len(parents) > 1 THEN <<",">> \o InheritanceText(Tail(parents)) ELSE <<>>)

\* The scanner's record of one struct: name, optional template declaration,
\* the parents (named both in the inheritance clause and in the declare
\* macro call), whether the declare macro is present, and the member lines.
Entity(name, templ, parents, marked, members) ==
    MkClassInfo(
        parse_identifier("struct", templ, name,
            IF Len(parents) = 0 THEN None ELSE Some(InheritanceText(parents))),
        None, <<>>,
        << <<"{">> >>
            \o (IF marked THEN <<DeclareLine(name, parents)>> ELSE <<>>)
            \o members \o << <<"}", ";">> >>,
        IF marked THEN DeclareArgs(DeclareLine(name, parents)) ELSE <<>>,
        marked)
\* The record of a marked struct whose declare macro call names other
\* parents (`declared`) than its inheritance clause (`textual`).
EntityDeclaring(name, templ, textual, declared, members) ==
    [Entity(name, templ, textual, TRUE, members) EXCEPT
        !.body = << <<"{">>, DeclareLine(name, declared) >> \o members
                     \o << <<"}", ";">> >>,
        !.macro_args = DeclareArgs(DeclareLine(name, declared))]

IntX == <<"int", SP, "x", ";">>
FloatY == <<"float", SP, "y", ";">>
FloatX == <<"float", SP, "x", ";">>
TValue == <<"T", SP, "value", ";">>
TW == <<"std", "::", "vector", "<", "T", ">", SP, "w", ";">>

BaseEntities ==
    {Entity(sBase, None, <<>>, m, <<IntX>>) : m \in BOOLEAN}
    \cup {Entity(sBase, None, <<sBoxInt>>, TRUE, <<IntX>>)}
ChildEntities ==
    {Entity(sChild, None, ps, TRUE, <<FloatY>>) :
        ps \in {<<sBase>>, <<sBoxInt>>, <<sBoxT>>}}
    \cup {Entity(sChild, None, <<sBase>>, TRUE, <<FloatY, FloatX>>)}
    \cup {EntityDeclaring(sChild, None, <<sBoxT>>, <<sWrapT>>, <<FloatY>>)}
BoxEntities ==
    {Entity(sBox, Some(TypenameT), <<>>, m, <<TValue>>) : m \in BOOLEAN}
    \cup {Entity(sBox, Some(TypenameT), <<sWrapT>>, TRUE, <<TValue>>)}
WrapEntities ==
    {Entity(sWrap, Some(TypenameT), <<>>, TRUE, <<TW>>)}
    \cup {Entity(sWrap, Some(TypenameT), <<sBoxT>>, TRUE, <<TW>>)}
Entities == BaseEntities \cup ChildEntities \cup BoxEntities \cup WrapEntities

\* The scanner rejects a second entity of the same identifier (line 548), so
\* the identifiers of a scanned table are pairwise distinct.
Tables ==
    UNION {{t \in [1..n -> Entities] :
               \A a, b \in 1..n : a # b => t[a].id.identifier # t[b].id.identifier} :
           n \in 1..MaxEntities}

(***************************************************************************)
(* The actions.                                                            *)
(***************************************************************************)
Init ==
    /\ clinfos \in Tables
    /\ relaxed = FALSE
    /\ modes = <<>>
    /\ heap = <<>>
    /\ cache = <<>>
    /\ classes = <<>>
    /\ stack = <<>>
    /\ pc = "idle"
    /\ idx = 1
    /\ heapBase = 0
    /\ results = <<>>
    /\ lines = <<>>
    /\ index = 0
    /\ namespaces = <<>>
    /\ enums = <<>>
    /\ error = ""
    /\ call = None
    /\ ret = None
    /\ bodyScan = None
    /\ NoScript

Top == stack[Len(stack)]
SetTop(f) == [stack EXCEPT ![Len(stack)] = f]

\* parse() is called (lines 306-320) in default or in relaxed mode: a fresh
\* result collection; the cache is the parser's and is kept from an earlier
\* call.
Parse ==
    /\ IF pc = "done" THEN Len(results) < MaxRuns ELSE pc = "idle"
    /\ pc' = "promote"
    /\ classes' = <<>>
    /\ idx' = 1
    /\ stack' = <<>>
    /\ heapBase' = Len(heap)
    /\ relaxed' \in BOOLEAN
    /\ modes' = Append(modes, relaxed')
    /\ UNCHANGED <<clinfos, heap, cache, results>>
    /\ UNCHANGED <<scanVars, callVars, toolVars>>

\* clear_cache() between two calls of parse().
ClearCache ==
    /\ pc = "done"
    /\ Len(results) < MaxRuns
    /\ Len(cache) > 0
    /\ cache' = <<>>
    /\ UNCHANGED <<clinfos, relaxed, modes, heap, classes, stack, pc, idx, heapBase, results>>
    /\ UNCHANGED <<scanVars, callVars, toolVars>>

\* One iteration of the loop of lines 403-412 up to the call parse_class(clinfo).
TopLevel ==
    /\ pc = "promote"
    /\ stack = <<>>
    /\ idx <= Len(clinfos)
    /\ LET Called(r) ==
               /\ pc' = IF r.st = "fatal" THEN "fatal" ELSE pc
               /\ idx' = IF r.st = "none" THEN idx + 1 ELSE idx
               /\ stack' = IF r.st = "ok" THEN <<MkFrame(idx, r.pids)>> ELSE stack
       IN  Called(ParentIds(clinfos[idx], FALSE, relaxed))
    /\ UNCHANGED <<clinfos, relaxed, modes, heap, cache, classes, heapBase, results>>
    /\ UNCHANGED <<scanVars, callVars, toolVars>>

\* One iteration of `for pid in pids` (lines 343-391) in the innermost call,
\* up to and including the recursive call of parse_class.
Resolve ==
    /\ pc = "promote"
    /\ stack # <<>>
    /\ Top.k <= Len(Top.pids)
    /\ LET Call(r, pr) ==
               IF Len(stack) >= RecursionLimit
               THEN pc' = "RecursionError" /\ stack' = stack
               ELSE IF pr.st # "ok"
               THEN pc' = "fatal" /\ stack' = stack
               ELSE /\ stack' = Append(
                           SetTop([Top EXCEPT
                               !.needs_instantiation = r.needs_instantiation,
                               !.templargs = r.templargs]),
                           MkFrame(r.ci, pr.pids))
                    /\ pc' = pc
           Step(r) ==
               CASE r.kind = "cached" ->
                      /\ stack' = SetTop([Top EXCEPT !.parents = Append(@, r.ref),
                                                     !.k = @ + 1])
                      /\ pc' = pc
                 [] r.kind = "skip" ->
                      /\ stack' = SetTop([Top EXCEPT !.k = @ + 1])
                      /\ pc' = pc
                 [] r.kind = "call" ->
                      Call(r, ParentIds(clinfos[r.ci], TRUE, relaxed))
                 [] OTHER ->
                      /\ pc' = r.kind
                      /\ stack' = stack
       IN  Step(ResolveStep(heap, cache, clinfos, relaxed, Top.pids[Top.k]))
    /\ UNCHANGED <<clinfos, relaxed, modes, heap, cache, classes, idx, heapBase, results>>
    /\ UNCHANGED <<scanVars, callVars, toolVars>>

\* The innermost call has resolved all its parents: __create_class (line
\* 401), the return, and what the caller does with the returned Class:
\* classes.add(cl) at the top level (lines 410-412), instantiation and
\* parents.append(c) in an enclosing parse_class (lines 392-399).
Return ==
    /\ pc = "promote"
    /\ stack # <<>>
    /\ Top.k > Len(Top.pids)
    /\ LET PushParent(h, ref) ==
               /\ heap' = h
               /\ stack' = [SubSeq(stack, 1, Len(stack) - 1) EXCEPT ![Len(stack) - 1] =
                              [@ EXCEPT !.parents = Append(@, ref), !.k = @ + 1]]
               /\ UNCHANGED <<pc, classes, idx>>
           Instantiated(cr, inst) ==
               IF inst.st # "ok"
               THEN /\ heap' = cr.heap
                    /\ pc' = inst.st
                    /\ UNCHANGED <<classes, stack, idx>>
               ELSE PushParent(Append(cr.heap, inst.cls), Len(cr.heap) + 1)
           Created(cr) ==
               IF cr.st # "ok"
               THEN /\ pc' = cr.st
                    /\ UNCHANGED <<heap, cache, classes, stack, idx>>
               ELSE /\ cache' = cr.cache
                    /\ IF Len(stack) = 1
                       THEN /\ heap' = cr.heap
                            /\ stack' = <<>>
                            /\ IF PerIdentifier(cr.heap, classes,
                                                clinfos[Top.ci].id.identifier) # 0
                               THEN pc' = "fatal" /\ UNCHANGED <<classes, idx>>
                               ELSE /\ pc' = pc
                                    /\ classes' = Append(classes, cr.ref)
                                    /\ idx' = idx + 1
                       ELSE IF ~stack[Len(stack) - 1].needs_instantiation
                       THEN PushParent(cr.heap, cr.ref)
                       ELSE Instantiated(cr,
                                instantiate(cr.heap[cr.ref],
                                            stack[Len(stack) - 1].templargs))
       IN  Created(create_class(heap, cache, clinfos[Top.ci], Top.parents))
    /\ UNCHANGED <<clinfos, relaxed, modes, heapBase, results>>
    /\ UNCHANGED <<scanVars, callVars, toolVars>>

\* The loop over the entities is over: the merge pass (lines 414-428) and
\* `return classes`.
Merge ==
    /\ pc = "promote"
    /\ stack = <<>>
    /\ idx > Len(clinfos)
    /\ LET Merged(r) ==
               /\ heap' = r.heap
               /\ IF r.st = "ok"
                  THEN /\ results' = Append(results, CollectionValue(r.heap, classes))
                       /\ pc' = "done"
                  ELSE /\ results' = results
                       /\ pc' = r.st
       IN  Merged(MergeClasses(heap, classes, 1))
    /\ UNCHANGED <<clinfos, relaxed, modes, cache, classes, stack, idx, heapBase>>
    /\ UNCHANGED <<scanVars, callVars, toolVars>>

Next == Parse \/ ClearCache \/ TopLevel \/ Resolve \/ Return \/ Merge

Spec == Init /\ [][Next]_vars

(***************************************************************************)
(* The scanner: CPParser.__find_entities.                                  *)
(* The text is one string (no `CPParser file` marker lines) and holds no   *)
(* alignas specifier.                                                      *)
(***************************************************************************)
MacroEnum == "ENUM"
NL == "\n"

\* The keywords a token holds as a substring: Python's `kw in line` is a
\* substring test, so `base_class` holds `class`.
Within(tok) ==
    CASE tok = "base_class" -> {"base_class", "class"}
      [] tok = "constructor" -> {"constructor", "struct"}
      [] OTHER -> {tok}
\* `kw in line`
In(kw, line) == \E k \in 1..Len(line) : kw \in Within(line[k])

\* A classification in which each keyword counts on its own.
ClassifyEachKeyword(line) ==
    IF Cardinality({kw \in {"enum", "class", "struct"} : In(kw, line)}) > 1 THEN "fatal"
    ELSE IF In("enum", line) THEN "enum"
    ELSE IF In("class", line) THEN "class"
    ELSE IF In("struct", line) THEN "struct"
    ELSE "none"

\* Lines 475-492: the entity type announced by a line; "fatal" is the
\* `Class type mismatch` exit, "none" a line that announces nothing.
Classify(line) ==
    LET Decide(is_enum, is_class, is_struct) ==
            IF (IF is_enum THEN 1 ELSE 0) + (IF is_class THEN 1 ELSE 0)
                  + (IF is_struct THEN 1 ELSE 0) > 1 THEN "fatal"
            ELSE IF is_enum THEN "enum"
            ELSE IF is_class THEN "class"
            ELSE IF is_struct THEN "struct"
            ELSE "none"
        Struct(is_enum, is_class) ==
            Decide(is_enum, is_class, In("struct", line) /\ ~is_class)
        Class(is_enum) == Struct(is_enum, In("class", line) /\ ~is_enum)
    IN  Class(In("enum", line))

\* re.match(rf"{macro}\((.*?)\)", line): group 1, when the line begins with
\* the macro call.
MatchMacro(line, macro) ==
    IF Len(line) >= 3 /\ line[1] = macro /\ line[2] = "("
          /\ \E k \in 3..Len(line) : line[k] = ")"
    THEN [ok |-> TRUE,
          arg |-> SubSeq(line, 3, (CHOOSE k \in 3..Len(line) :
                     line[k] = ")" /\ \A j \in 3..(k - 1) : line[j] # ")") - 1)]
    ELSE [ok |-> FALSE, arg |-> <<>>]

\* re.match(r"namespace ([a-zA-Z0-9_::]+)", line): group 1 split at "::".
RECURSIVE NameRun(_, _)
NameRun(line, k) ==
    IF k <= Len(line) /\ (IsWord(line[k]) \/ line[k] \in {"::", ":"})
    THEN <<line[k]>> \o NameRun(line, k + 1)
    ELSE <<>>
NamespaceMatch(line) ==
    IF Len(line) >= 3 /\ line[1] = "namespace" /\ line[2] = SP
          /\ Len(NameRun(line, 3)) > 0
    THEN [ok |-> TRUE, names |-> SplitAll(NameRun(line, 3), "::")]
    ELSE [ok |-> FALSE, names |-> <<>>]

\* \s of the patterns.
IsSpace(tok) == tok \in {SP, NL}
\* The first position from k on that holds no white space.
RECURSIVE SkipSpace(_, _)
SkipSpace(d, k) == IF k <= Len(d) /\ IsSpace(d[k]) THEN SkipSpace(d, k + 1) ELSE k
\* The last position of the run of words and white space that begins at k
\* (k - 1 when the run is empty).
RECURSIVE RunEnd(_, _)
RunEnd(d, k) ==
    IF k <= Len(d) /\ (IsWord(d[k]) \/ IsSpace(d[k])) THEN RunEnd(d, k + 1) ELSE k - 1
\* The end of the physical line that position k is on.
RECURSIVE LineEnd(_, _)
LineEnd(d, k) == IF k < Len(d) /\ d[k + 1] # NL THEN LineEnd(d, k + 1) ELSE k

\* The leading `(?:template\s*<([^\(\)]*)>\s*)*` of the class pattern from
\* position k: the position after it and group 1 (of the last repetition).
\* The bracket closes at the last ">" that a keyword or a further template
\* follows.
RECURSIVE TemplatePrefix(_, _, _)
TemplatePrefix(d, k, g1) ==
    LET Closers(lt) ==
            {q \in (lt + 1)..Len(d) :
                /\ d[q] = ">"
                /\ \A j \in lt..q : d[j] \notin {"(", ")"}
                /\ SkipSpace(d, q + 1) <= Len(d)
                /\ d[SkipSpace(d, q + 1)] \in {"class", "struct", "template"}}
        Close(lt, qs) ==
            IF qs = {} THEN [k |-> k, g1 |-> g1]
            ELSE TemplatePrefix(d,
                    SkipSpace(d, (CHOOSE q \in qs : \A r \in qs : r <= q) + 1),
                    Some(SubSeq(d, lt + 1, (CHOOSE q \in qs : \A r \in qs : r <= q) - 1)))
        Open(lt) ==
            IF lt <= Len(d) /\ d[lt] = "<" THEN Close(lt, Closers(lt))
            ELSE [k |-> k, g1 |-> g1]
    IN  IF k <= Len(d) /\ d[k] = "template" THEN Open(SkipSpace(d, k + 1))
        ELSE [k |-> k, g1 |-> g1]

\* The end of group 2 of the class pattern, which begins with the word at w:
\* `::`-joined words, and from a "<" that follows a word on to the last ">"
\* of the physical line.
RECURSIVE NameEnd(_, _)
NameEnd(d, w) ==
    IF w < Len(d) /\ d[w + 1] = "<"
          /\ \E q \in (w + 2)..LineEnd(d, w) : d[q] = ">"
    THEN CHOOSE q \in (w + 2)..LineEnd(d, w) :
            d[q] = ">" /\ \A r \in (q + 1)..LineEnd(d, w) : d[r] # ">"
    ELSE IF w + 1 < Len(d) /\ d[w + 1] = "::" /\ IsWord(d[w + 2])
    THEN NameEnd(d, w + 2)
    ELSE w

\* re.match(self.__class_pattern, d) (lines 263-273): the three groups.
ClassPatternMatch(d) ==
    LET NoMatch == [ok |-> FALSE, g1 |-> None, g2 |-> <<>>, g3 |-> None]
        Tail3(g1, w, e, c) ==
            [ok |-> TRUE, g1 |-> g1, g2 |-> SubSeq(d, w, e),
             g3 |-> IF c <= Len(d) /\ d[c] = ":" /\ SkipSpace(d, c + 1) <= LineEnd(d, c)
                         /\ (c = Len(d) \/ d[c + 1] # NL \/ SkipSpace(d, c + 1) <= Len(d))
                    THEN Some(SubSeq(d, SkipSpace(d, c + 1),
                                     LineEnd(d, SkipSpace(d, c + 1))))
                    ELSE None]
        Name(g1, w, e) == Tail3(g1, w, e, SkipSpace(d, e + 1))
        Words(g1, k, words) ==
            IF words = {} THEN NoMatch
            ELSE Name(g1, CHOOSE w \in words : \A v \in words : v <= w,
                      NameEnd(d, CHOOSE w \in words : \A v \in words : v <= w))
        Run(g1, k, e) ==
            Words(g1, k, {w \in k..e : IsWord(d[w]) /\ (w = k \/ ~IsWord(d[w - 1]))})
        Keyword(t) ==
            IF t.k < Len(d) /\ d[t.k] \in {"class", "struct"} /\ IsSpace(d[t.k + 1])
            THEN Run(t.g1, SkipSpace(d, t.k + 1), RunEnd(d, SkipSpace(d, t.k + 1)))
            ELSE NoMatch
    IN  Keyword(TemplatePrefix(d, 1, None))

\* CPParser.__parse_identifier(clsdecl, clstype).
ParseDeclaration(clsdecl, clstype) ==
    LET EnumName(id) ==
            IF HasTok(id, SP)
            THEN Strip(SubSeq(id, (CHOOSE k \in 1..Len(id) :
                        id[k] = SP /\ \A j \in (k + 1)..Len(id) : id[j] # SP) + 1, Len(id)))
            ELSE Strip(id)
        Enum(name) == [st |-> "ok", id |-> MkIdentifier(name, name, clstype, None, <<>>)]
        Cut(k) == IF k = 0 THEN clsdecl ELSE SubSeq(clsdecl, 1, k - 1)
        Matched(m) ==
            IF ~m.ok THEN [st |-> "fatal", id |-> MkIdentifier(<<>>, <<>>, clstype, None, <<>>)]
            ELSE [st |-> "ok", id |-> parse_identifier(clstype, m.g1, m.g2, m.g3)]
    IN  IF clstype = "enum"
        THEN Enum(EnumName(Strip(Cut(
                IF \E k \in 1..Len(clsdecl) : clsdecl[k] \in {":", "::"}
                THEN CHOOSE k \in 1..Len(clsdecl) :
                        clsdecl[k] \in {":", "::"}
                        /\ \A j \in 1..(k - 1) : clsdecl[j] \notin {":", "::"}
                ELSE 0))))
        ELSE Matched(ClassPatternMatch(
                Strip(RemoveTok(DropSpaceAfterComma(clsdecl), "final"))))

\* The inner loop of lines 518-538 from position i (counted from 0): where
\* it stops, the end of the body, and the declare macro it met.  st is the
\* message of a fatal exit.
RECURSIVE FindEnd(_, _, _, _)
FindEnd(ls, i, has_declm, macro_args) ==
    LET Out(st, k, end) ==
            [st |-> st, index |-> k, end |-> end,
             macro_args |-> macro_args, has_declm |-> has_declm]
        Closed(subline, hd, margs) ==
            IF subline = <<"}", ";">>
            THEN [st |-> "ok", index |-> i, end |-> i + 1,
                  macro_args |-> margs, has_declm |-> hd]
            ELSE FindEnd(ls, i + 1, hd, margs)
        Declared(subline, m) ==
            IF has_declm THEN Out("duplicate declare macro", i, Len(ls))
            ELSE IF ~m.ok THEN Out("declare macro arguments", i, Len(ls))
            ELSE Closed(subline, TRUE, Map(Strip, nested_split(m.arg, ",", -1)))
        Sub(subline) ==
            IF In(MacroDeclare, subline)
            THEN Declared(subline, MatchMacro(subline, MacroDeclare))
            ELSE Closed(subline, has_declm, macro_args)
    IN  IF i >= Len(ls) THEN Out("ok", i, Len(ls))
        ELSE Sub(Strip(ls[i + 1]))

\* Number of blocks of the scanned text.
MaxBlocks == 3

NamespaceBlock == << <<"namespace", SP, "ns">> >>
EnumMacroBlock == << <<MacroEnum, "(", "Color", ")">> >>
EnumClassBlock ==
    << <<"enum", SP, "class", SP, "Color">>, <<"{">>, <<"Red", ",">>, <<"}", ";">> >>
EnumStructBlock ==
    << <<"enum", SP, "struct", SP, "Color">>, <<"{">>, <<"}", ";">> >>
StructBaseBlock ==
    << <<"struct", SP, "Base">>, <<"{">>, <<MacroDeclare, "(", "Base", ")">>,
       IntX, <<"}", ";">> >>
StructFooBlock ==
    << <<"struct", SP, "Foo", SP, ":", SP, "public", SP, "base_class">>,
       <<"{">>, <<"}", ";">> >>
ClassBaseBlock == << <<"class", SP, "Base">>, <<"{">>, <<"}", ";">> >>
TemplateBoxBlock ==
    << <<"template", "<", "typename", SP, "T", ">">>, <<"struct", SP, "Box">>,
       <<"{">>, <<"}", ";">> >>
\* A struct that holds a nested type, with a member after it.
StructOuterBlock ==
    << <<"struct", SP, "Outer">>, <<"{">>, <<"struct", SP, "Inner">>, <<"{">>,
       IntX, <<"}", ";">>, FloatY, <<"}", ";">> >>
Blocks == {NamespaceBlock, EnumMacroBlock, EnumClassBlock, EnumStructBlock,
           StructBaseBlock, StructFooBlock, ClassBaseBlock, TemplateBoxBlock,
           StructOuterBlock}
RECURSIVE Flatten(_)
Flatten(bs) == IF Len(bs) = 0 THEN <<>> ELSE bs[1] \o Flatten(Tail(bs))
Files == UNION {{Flatten(bs) : bs \in [1..n -> Blocks]} : n \in 1..MaxBlocks}

InitScan ==
    /\ lines \in Files
    /\ index = 0
    /\ namespaces = <<>>
    /\ enums = <<>>
    /\ error = ""
    /\ clinfos = <<>>
    /\ pc = "scan"
    /\ relaxed = FALSE
    /\ modes = <<>>
    /\ heap = <<>>
    /\ cache = <<>>
    /\ classes = <<>>
    /\ stack = <<>>
    /\ idx = 1
    /\ heapBase = 0
    /\ results = <<>>
    /\ call = None
    /\ ret = None
    /\ bodyScan = None
    /\ NoScript

\* One iteration of `while index < len(lines)` (lines 445-556).
ScanLine ==
    /\ pc = "scan"
    /\ index < Len(lines)
    /\ LET Skip(k) ==
               /\ index' = k
               /\ UNCHANGED <<pc, namespaces, enums, clinfos, error>>
           Fatal(msg) ==
               /\ pc' = "fatal"
               /\ error' = msg
               /\ UNCHANGED <<index, namespaces, enums, clinfos>>
           Identified(clstype, fe, pd) ==
               IF pd.st # "ok" THEN Fatal("identifier")
               ELSE IF clstype = "enum" /\ ~InList(enums, pd.id.identifier)
               THEN Skip(fe.index + 1)
               ELSE IF InfoPerIdentifier(clinfos, pd.id.identifier) # 0
               THEN Fatal("duplicate identifier")
               ELSE /\ clinfos' = Append(clinfos,
                          MkClassInfo(pd.id, None, namespaces,
                                      SubSeq(lines, index + 2, fe.end),
                                      fe.macro_args, fe.has_declm))
                    /\ index' = fe.index + 1
                    /\ UNCHANGED <<pc, namespaces, enums, error>>
           Body(clstype, tl, fe) ==
               IF fe.st # "ok" THEN Fatal(fe.st)
               ELSE Identified(clstype, fe,
                       ParseDeclaration(
                           IF IsNone(tl) THEN lines[index + 1]
                           ELSE lines[index + 1] \o <<NL>> \o Val(tl),
                           clstype))
           Templated(clstype, tl) ==
               IF ~IsNone(tl) /\ CountTok(Val(tl), "template") > 1
               THEN Skip(index + 1)
               ELSE Body(clstype, tl, FindEnd(lines, index, FALSE, <<>>))
           Typed(clstype) ==
               IF clstype = "fatal" THEN Fatal("Class type mismatch")
               ELSE IF clstype = "none" THEN Skip(index + 1)
               ELSE Templated(clstype,
                       IF index > 0 /\ In("template", lines[index])
                             /\ ~In("struct", lines[index]) /\ ~In("class", lines[index])
                       THEN Some(Strip(lines[index]))
                       ELSE None)
           Namespace(line, m) ==
               IF m.ok
               THEN /\ namespaces' = namespaces \o m.names
                    /\ clinfos' = [k \in 1..Len(clinfos) |->
                                      [clinfos[k] EXCEPT !.namespaces = namespaces \o m.names]]
                    /\ index' = index + 1
                    /\ UNCHANGED <<pc, enums, error>>
               ELSE Typed(Classify(line))
           EnumMacro(m) ==
               IF ~m.ok THEN Fatal("enum declare macro arguments")
               ELSE /\ enums' = Append(enums, m.arg)
                    /\ index' = index + 1
                    /\ UNCHANGED <<pc, namespaces, clinfos, error>>
           Line(line) ==
               IF In(MacroEnum, line) /\ ~In("#define", line)
               THEN EnumMacro(MatchMacro(line, MacroEnum))
               ELSE IF Len(line) > 0 /\ line[Len(line)] = ";"
               THEN Skip(index + 1)
               ELSE Namespace(line, NamespaceMatch(line))
       IN  Line(Strip(lines[index + 1]))
    /\ UNCHANGED <<relaxed, modes, heap, cache, classes, stack, idx, heapBase, results,
                   lines, callVars, toolVars>>

\* `return classes` (line 557).
ScanReturn ==
    /\ pc = "scan"
    /\ index >= Len(lines)
    /\ pc' = "scanned"
    /\ UNCHANGED <<clinfos, relaxed, modes, heap, cache, classes, stack, idx, heapBase,
                   results, scanVars, callVars, toolVars>>

NextScan == ScanLine \/ ScanReturn

SpecScan == InitScan /\ [][NextScan]_vars

(***************************************************************************)
(* Properties of the scanner.                                              *)
(***************************************************************************)
\* The line the scanner is at.
CurrentLine == Strip(lines[index + 1])
\* The keywords the line holds.
Keywords(line) == {kw \in {"enum", "class", "struct"} : In(kw, line)}
\* The scanner is at a line that reaches the keyword tests of lines 475-477:
\* not an enum macro line, not ended by ";", not a namespace header.
AtKeywordTest ==
    /\ pc = "scan"
    /\ index < Len(lines)
    /\ ~(In(MacroEnum, CurrentLine) /\ ~In("#define", CurrentLine))
    /\ ~(Len(CurrentLine) > 0 /\ CurrentLine[Len(CurrentLine)] = ";")
    /\ ~NamespaceMatch(CurrentLine).ok

\* C8 (as amended): the scan of a line ends with the fatal type mismatch
\* exactly when the line holds both `enum` and `struct`; a line that holds
\* `enum` and `class` is taken as an enum, a line that holds `class` and
\* `struct` as a class.
C8_EnumStructFatal ==
    [][AtKeywordTest =>
          /\ ({"enum", "struct"} \subseteq Keywords(CurrentLine))
                <=> (pc' = "fatal" /\ error' = "Class type mismatch")
          /\ (Len(clinfos') > Len(clinfos)) =>
                clinfos'[Len(clinfos')].id.ctype =
                    (IF "enum" \in Keywords(CurrentLine) THEN "enum"
                     ELSE IF "class" \in Keywords(CurrentLine) THEN "class"
                     ELSE "struct")]_vars

\* C8 (as stated): the scan of a line that holds more than one of the
\* keywords class, struct and enum ends with a fatal error.
C8_AnyTwoKeywordsFatal ==
    [][(AtKeywordTest /\ Cardinality(Keywords(CurrentLine)) > 1) => pc' = "fatal"]_vars

\* C8 witness: an enum announced by an `enum class` line has been scanned,
\* and the scan has then ended with the type mismatch at a line that holds
\* `enum` and `struct`.
C8_Witness ==
    /\ pc = "fatal"
    /\ error = "Class type mismatch"
    /\ Keywords(CurrentLine) = {"enum", "struct"}
    /\ \E k \in 1..Len(clinfos) :
          /\ clinfos[k].id.ctype = "enum"
          /\ clinfos[k].id.identifier = <<"Color">>
    /\ \E j \in 1..index : Keywords(lines[j]) = {"enum", "class"}

(***************************************************************************)
(* Class.instantiate called directly on a generic.                         *)
(***************************************************************************)
\* Number of members of the generic.
MaxMembers == 2

\* (the header text has had ", " replaced by "," before the match, line 581)
TypenameTU == <<"typename", SP, "T", ",", "typename", SP, "U">>
TPtr == <<"T", "*", SP, "p", ";">>
UPair == <<"std", "::", "pair", "<", "T", ",", SP, "U", ">", SP, "q", ";">>
MemberLines == {TValue, TW, IntX, TPtr, UPair}
\* The member lists: no field name twice (the body scan rejects it).
MemberLists ==
    UNION {{ms \in [1..n -> MemberLines] :
               \A a, b \in 1..n : a # b => ms[a] # ms[b]} : n \in 0..MaxMembers}

\* The Class that __create_class builds for a marked generic struct.
Generic(name, templ, members) ==
    create_class(<<>>, <<>>, Entity(name, Some(templ), <<>>, TRUE, members), <<>>).heap[1]

TemplateArguments ==
    {<<"int">>, <<"float">>, <<"T">>,
     <<"int", ",", SP, "float">>, <<"T", ",", SP, "float">>,
     <<"std", "::", "pair", "<", "int", ",", SP, "float", ">">>}

InstantiateCalls ==
    {[cls |-> Generic(name, templ, ms), templargs |-> a] :
        name \in {sBox, sWrap}, templ \in {TypenameT, TypenameTU},
        ms \in MemberLists, a \in TemplateArguments}

InitInstantiate ==
    /\ call \in InstantiateCalls
    /\ ret = None
    /\ bodyScan = None
    /\ pc = "call"
    /\ clinfos = <<>>
    /\ relaxed = FALSE
    /\ modes = <<>>
    /\ heap = <<>>
    /\ cache = <<>>
    /\ classes = <<>>
    /\ stack = <<>>
    /\ idx = 1
    /\ heapBase = 0
    /\ results = <<>>
    /\ lines = <<>>
    /\ index = 0
    /\ namespaces = <<>>
    /\ enums = <<>>
    /\ error = ""
    /\ NoScript

\* call.cls.instantiate(call.templargs)
Instantiate ==
    /\ pc = "call"
    /\ ret' = instantiate(call.cls, call.templargs)
    /\ pc' = "returned"
    /\ UNCHANGED <<clinfos, relaxed, modes, heap, cache, classes, stack, idx, heapBase,
                   results, scanVars, call, bodyScan, toolVars>>

SpecInstantiate == InitInstantiate /\ [][Instantiate]_vars

(***************************************************************************)
(* Properties of Class.instantiate.                                        *)
(***************************************************************************)
\* vtype with every token T replaced by the tokens of a.
RECURSIVE WithTReplaced(_, _)
WithTReplaced(vtype, a) ==
    IF Len(vtype) = 0 THEN <<>>
    ELSE (IF vtype[1] = "T" THEN a ELSE <<vtype[1]>>) \o WithTReplaced(Tail(vtype), a)

\* The case of C10: the generic has the one template parameter T and the
\* argument is one concrete type.
C10Case ==
    /\ pc = "returned"
    /\ call.cls.id.templdecl = Some(TypenameT)
    /\ call.cls.id.identifier = call.cls.id.name \o <<"<", "T", ">">>
    /\ call.templargs \in {<<"int">>, <<"float">>}

ArgumentCount(templargs) == Len(nested_split(templargs, ",", -1))
\* The argument list of the identifier Name<...>.
IdentifierArguments(id) ==
    LET parts == Split1(id.identifier, "<")
    IN  SubSeq(parts[2], 1, Len(parts[2]) - 1)

\* C11 (as stated): an instantiation whose argument count differs from the
\* number of arguments of the generic's identifier is fatal; it returns no
\* Class.
C11_ArityMismatchFatal ==
    (/\ pc = "returned"
     /\ ArgumentCount(call.templargs)
            # ArgumentCount(IdentifierArguments(call.cls.id)))
        => ret.st = "fatal"

\* The parameters of the generic and the arguments of the call, one list
\* element per template argument.
GenericParameters == Map(Strip, nested_split(IdentifierArguments(call.cls.id), ",", -1))
CallArguments == Map(Strip, nested_split(call.templargs, ",", -1))

\* vtype with every word that is a parameter replaced by the argument of
\* its pair, where the two differ.
RECURSIVE WithPairsReplaced(_, _, _)
WithPairsReplaced(vtype, params, arguments) ==
    IF Len(vtype) = 0 THEN <<>>
    ELSE (IF \E k \in 1..Len(params) : params[k] = <<vtype[1]>>
          THEN arguments[CHOOSE k \in 1..Len(params) : params[k] = <<vtype[1]>>]
          ELSE <<vtype[1]>>)
         \o WithPairsReplaced(Tail(vtype), params, arguments)

\* The case of C20: a generic with one or two parameters has been
\* instantiated with as many arguments, none of them a template itself.
C20Case ==
    /\ pc = "returned"
    /\ Len(GenericParameters) = Len(CallArguments)
    /\ \A k \in 1..Len(call.templargs) : call.templargs[k] # "<"

\* C20 (as stated): instantiating a generic with any number of parameters
\* returns a Class whose fields have the names of the generic's fields in
\* the same order, each type with every differing (parameter, argument)
\* pair substituted, whether zero, one or several pairs differ.
C20_InstantiateAnyArity ==
    C20Case =>
        /\ ret.st = "ok"
        /\ Len(ret.cls.fields.fields) = Len(call.cls.fields.fields)
        /\ \A k \in 1..Len(call.cls.fields.fields) :
              ret.cls.fields.fields[k] =
                  [call.cls.fields.fields[k] EXCEPT
                      !.vtype = WithPairsReplaced(@, GenericParameters, CallArguments)]

\* The number of pairs of the call that differ.
DifferingPairs ==
    Cardinality({k \in 1..Len(GenericParameters) : GenericParameters[k] # CallArguments[k]})

\* C20, the case that holds: with exactly one differing pair the fields
\* are those of the generic with that pair substituted.
C20_OnePairDiffers == (C20Case /\ DifferingPairs = 1) => C20_InstantiateAnyArity

\* A call with two parameters of which one differs has returned.
C20_OnePairOfTwo ==
    /\ C20Case
    /\ DifferingPairs = 1
    /\ Len(GenericParameters) = 2
    /\ Len(call.cls.fields.fields) = 2
    /\ ret.st = "ok"

(***************************************************************************)
(* Properties of the resolver.                                             *)
(***************************************************************************)
\* The fields the body scan registers for entity ci, before any merge.
OwnFields(ci) ==
    ScanBody(clinfos[ci].id.ctype, clinfos[ci].body, ReservedGroupNames).fields.fields
\* The fields of fs whose names no field of own has.
NotShadowedBy(own, fs) ==
    SelectSeq(fs, LAMBDA f : \A k \in 1..Len(own) : own[k].name # f.name)
\* The classes of the collection parse() has just returned.
Returned ==
    IF pc = "done"
    THEN {results[Len(results)][k] : k \in 1..Len(results[Len(results)])}
    ELSE {}

\* The case of C1: relaxed resolution, the marked struct Child whose textual
\* parent is the marked struct Base.
C1Case(c) ==
    /\ relaxed
    /\ c.id.identifier = sChild
    /\ c.id.inheritance = <<sBase>>
    /\ InfoPerIdentifier(clinfos, sBase) # 0
    /\ clinfos[InfoPerIdentifier(clinfos, sBase)].has_declare_macro

C2_ExactMatchPromoted ==
    (pc = "IndexError") => InfoPerIdentifier(clinfos, Top.pids[Top.k]) = 0

\* C3 (as stated): a cyclic parent chain is detected; no entity is entered
\* a second time on one resolution chain.
C3_NoEntityTwiceOnChain ==
    \A i, j \in 1..Len(stack) : i # j => stack[i].ci # stack[j].ci

\* A parent identifier that is not cached, is not a scanned identifier and
\* has no eligible generic to be instantiated from.
Unresolvable(pid) ==
    /\ PerIdentifier(heap, cache, pid) = 0
    /\ InfoPerIdentifier(clinfos, pid) = 0
    /\ \/ ~HasTok(pid, "<")
       \/ \A k \in 1..Len(clinfos) :
             clinfos[k].id.name = Split1(pid, "<")[1] => IsNone(clinfos[k].id.templdecl)

\* C4 (as stated): when the resolution stops at an unresolvable parent, it
\* stops with a fatal error and the mode is the default one; in relaxed mode
\* the parent is dropped and the resolution goes on.
C4_UnresolvableParentHandled ==
    (/\ pc \notin {"promote", "idle", "done"}
     /\ stack # <<>>
     /\ Top.k <= Len(Top.pids)
     /\ Unresolvable(Top.pids[Top.k]))
        => (pc = "fatal" /\ ~relaxed)

\* C5 (as stated): the Class objects constructed during one call of parse()
\* have pairwise distinct identifiers.
C5_OneClassPerIdentifier ==
    \A a, b \in (heapBase + 1)..Len(heap) :
        a # b => heap[a].id.identifier # heap[b].id.identifier

\* C6 (as stated): no step changes the field collection of a Class object
\* that is in the cache.
C6_CachedFieldsFrozen ==
    [][\A k \in 1..Len(cache) : heap'[cache[k]].fields = heap[cache[k]].fields]_vars

\* C7 (as stated): two calls of parse() on the same input return equal
\* collections, with or without clear_cache() in between.
C7_Idempotent ==
    (Len(results) = 2 /\ modes[1] = modes[2]) => results[1] = results[2]

\* The identifiers of the parents of the Class c.
ParentIdentifiers(c) == [k \in 1..Len(c.parents) |-> c.parents[k].id.identifier]
\* The parent list the mode selects for the marked entity ci: the declare
\* macro arguments after the first, or the textual inheritance list.
SelectedParents(ci) ==
    IF relaxed THEN clinfos[ci].id.inheritance ELSE Tail(clinfos[ci].macro_args)

\* C14 (as stated): whenever parse() returns, the parents of every class of
\* the result are, in order, parents of the list the mode of the call
\* selects (the macro arguments after the first in default mode, the
\* inheritance list in relaxed mode), and in default mode they are that
\* whole list.
C14_ParentsByMode ==
    \A c \in Returned :
        LET sel == SelectedParents(InfoPerIdentifier(clinfos, c.id.identifier))
            got == ParentIdentifiers(c)
        IN  /\ got = SelectSeq(sel, LAMBDA p : \E k \in 1..Len(got) : got[k] = p)
            /\ ~relaxed => got = sel

\* The case of C14 on a parser that has been called once: parse() in default
\* mode has returned Child, declared as `struct Child : public Box<T>` with
\* DECLARE(Child, Wrap<T>), with the one parent Wrap<T>.
C14_FirstCallCase ==
    /\ pc = "done"
    /\ modes = <<FALSE>>
    /\ \E c \in Returned :
          /\ c.id.identifier = sChild
          /\ c.id.inheritance = <<sBoxT>>
          /\ clinfos[InfoPerIdentifier(clinfos, sChild)].macro_args = <<sChild, sWrapT>>
          /\ ParentIdentifiers(c) = <<sWrapT>>

\* C14 on a parser called once: the formula of C14 holds for the collection
\* the first call of parse() returns.
C14_FirstCallParentsByMode == (Len(modes) = 1) => C14_ParentsByMode

\* C9: whenever parse() returns, each own field of a class is the only
\* field of its name in the class, whatever its parents hold, and the merge
\* pass never aborts.
C9_ShadowedOnce ==
    /\ \A c \in Returned :
          LET own == OwnFields(InfoPerIdentifier(clinfos, c.id.identifier))
          IN  \A k \in 1..Len(own) : \A i \in 1..Len(c.fields.fields) :
                  (c.fields.fields[i].name = own[k].name)
                      => (i = k /\ c.fields.fields[i] = own[k])
    /\ ~(pc = "fatal" /\ stack = <<>> /\ idx > Len(clinfos))

\* C9 witness: parse() has returned a collection in which Child holds its
\* own field x while its parent Base holds a different field named x.
C9_Witness ==
    /\ pc = "done"
    /\ \E c \in Returned :
          /\ c.id.identifier = sChild
          /\ Len(c.parents) = 1
          /\ \E i \in 1..Len(c.fields.fields) :
                \E j \in 1..Len(c.parents[1].fields.fields) :
                    /\ c.fields.fields[i].name = c.parents[1].fields.fields[j].name
                    /\ c.fields.fields[i] # c.parents[1].fields.fields[j]
                    /\ c.fields.fields[i].vtype = <<"float">>

\* The names of the fully merged field set of the Class value c: the names
\* of its own fields and of the fully merged field sets of its parents.
RECURSIVE MergedNames(_)
MergedNames(c) ==
    {c.fields.fields[k].name : k \in 1..Len(c.fields.fields)}
        \cup UNION {MergedNames(c.parents[k]) : k \in 1..Len(c.parents)}

\* C21 (as stated): whenever parse() returns, every class of the result
\* holds a field of every name of the fully merged field set of each of its
\* parents, the fields the parent inherits from its own parents included.
C21_InheritsMergedParents ==
    \A c \in Returned :
        MergedNames(c) \subseteq {c.fields.fields[k].name : k \in 1..Len(c.fields.fields)}

\* C21, the case that holds: a class of the result holds a field of every
\* name that a parent written in the scanned text declares in its own body.
C21_InheritsParentsOwn ==
    \A c \in Returned : \A j \in 1..Len(c.parents) :
        LET ci == InfoPerIdentifier(clinfos, c.parents[j].id.identifier)
        IN  ci # 0 =>
              \A k \in 1..Len(OwnFields(ci)) :
                  \E i \in 1..Len(c.fields.fields) :
                      c.fields.fields[i].name = OwnFields(ci)[k].name

\* The identifier a header line of Blocks declares, read off its text (<<>>
\* for any other line), and whether the line declares an enum.
DeclaredIdentifier(line) ==
    IF line = <<"struct", SP, "Base">> \/ line = <<"class", SP, "Base">> THEN sBase
    ELSE IF line = <<"enum", SP, "class", SP, "Color">> THEN <<"Color">>
    ELSE <<>>
DeclaresEnum(line) == In("enum", line)
\* The scanner is at the header of a class or struct, or of an enum named
\* in an enum declare macro call, whose identifier an entity of the table
\* already has.
AtDuplicate ==
    /\ AtKeywordTest
    /\ DeclaredIdentifier(CurrentLine) # <<>>
    /\ DeclaresEnum(CurrentLine) => InList(enums, DeclaredIdentifier(CurrentLine))
    /\ \E k \in 1..Len(clinfos) :
          clinfos[k].id.identifier = DeclaredIdentifier(CurrentLine)

\* The scanner is at the header of an enum that no enum declare macro call
\* has named.
AtUnmarkedEnum ==
    /\ AtKeywordTest
    /\ DeclaredIdentifier(CurrentLine) # <<>>
    /\ DeclaresEnum(CurrentLine)
    /\ ~InList(enums, DeclaredIdentifier(CurrentLine))

\* C15 (as amended): the identifiers of the scanned entity table are
\* pairwise distinct in every state; the scan of a class or struct, or of an
\* enum named in an enum declare macro call, whose identifier the table
\* already holds ends with the fatal duplicate error, the table unchanged;
\* an enum that no enum declare macro call names is passed over, whatever
\* was declared before it.
C15_DuplicateIdentifierFatal ==
    /\ [](\A a, b \in 1..Len(clinfos) :
              a # b => clinfos[a].id.identifier # clinfos[b].id.identifier)
    /\ [][/\ AtDuplicate =>
               (pc' = "fatal" /\ error' = "duplicate identifier" /\ clinfos' = clinfos)
          /\ AtUnmarkedEnum => (pc' = "scan" /\ clinfos' = clinfos)]_vars

\* C15 (as stated): the scan of a class, struct or enum declaration whose
\* identifier an earlier declaration of the text has ends with a fatal error.
C15_AnyDuplicateFatal ==
    [][(/\ AtKeywordTest
        /\ DeclaredIdentifier(CurrentLine) # <<>>
        /\ \E j \in 1..index :
              DeclaredIdentifier(Strip(lines[j])) = DeclaredIdentifier(CurrentLine))
          => pc' = "fatal"]_vars

\* C15 witness: `struct Base` has been scanned into the table and the scan
\* has ended with the duplicate error at the header `class Base`.
C15_Witness ==
    /\ pc = "fatal"
    /\ error = "duplicate identifier"
    /\ CurrentLine = <<"class", SP, "Base">>
    /\ Len(clinfos) = 1
    /\ clinfos[1].id.identifier = sBase
    /\ clinfos[1].id.ctype = "struct"

\* The braces a recorded body opens and leaves open: opening braces minus
\* closing braces over the lines of the body.
RECURSIVE OpenBraces(_)
OpenBraces(body) ==
    IF Len(body) = 0 THEN 0
    ELSE CountTok(body[1], "{") - CountTok(body[1], "}") + OpenBraces(Tail(body))

\* C24 (as stated): the body recorded for an entity extends to the closing
\* marker of the entity itself: no recorded body ends inside a nested type
\* (every brace the body opens is closed in it), and the member lines that
\* follow a nested type are in the body.
C24_BodyToOwnClosingMarker ==
    \A k \in 1..Len(clinfos) :
        /\ OpenBraces(clinfos[k].body) = 0
        /\ clinfos[k].id.identifier = <<"Outer">> => InList(clinfos[k].body, FloatY)

\* C24, what the scanner does: the body recorded for an entity ends at the
\* first line `};` after its header and holds no other line `};`.
C24_BodyToFirstClosingMarker ==
    \A k \in 1..Len(clinfos) :
        \A j \in 1..Len(clinfos[k].body) :
            Strip(clinfos[k].body[j]) = <<"}", ";">> <=> j = Len(clinfos[k].body)

\* C25 (as stated): the namespace list recorded for an entity is a snapshot:
\* when the entity is recorded its list holds the names of the namespace
\* headers scanned so far, in order, and no later step of the scan changes
\* the list recorded for an entity.
C25_NamespaceSnapshot ==
    [][/\ Len(clinfos') > Len(clinfos) =>
              clinfos'[Len(clinfos')].namespaces = namespaces
       /\ \A k \in 1..Len(clinfos) :
              clinfos'[k].namespaces = clinfos[k].namespaces]_vars

\* C25, what the scanner does: every recorded entity refers to the one list
\* of the scan, which holds the names of all the namespace headers scanned
\* so far, those after the entity included.
C25_NamespacesShared ==
    \A k \in 1..Len(clinfos) : clinfos[k].namespaces = namespaces

\* The identifiers of the classes of every collection parse() has returned
\* are pairwise distinct.
C15_ReturnedIdentifiersUnique ==
    \A r \in 1..Len(results) : \A a, b \in 1..Len(results[r]) :
        a # b => results[r][a].id.identifier # results[r][b].id.identifier

(***************************************************************************)
(* The field extractor, line by line: one call of __create_class on an     *)
(* entity that is not in the cache.                                        *)
(***************************************************************************)
\* Number of lines between the braces of a body.
MaxBodyLines == 4

GroupBeginNet ==
    <<MacroGroupBegin, "(", "\"", "Net", "\"", ",", SP, "\"", "skip-if-missing", "\"", ")">>
GroupBeginUi == <<MacroGroupBegin, "(", "Ui", ")">>
GroupEndLine == <<MacroGroupEnd, "(", ")">>
IgnoreBeginLine == <<MacroIgnoreBegin>>
IgnoreEndLine == <<MacroIgnoreEnd>>
BodyLines ==
    {GroupBeginNet, GroupBeginUi, GroupEndLine, IgnoreBeginLine, IgnoreEndLine,
     IntX, FloatY, FloatX}
\* clinfo.body: the line of the opening brace, the member lines, the line of
\* the closing brace, with at most `most` member lines.
BodyCalls(most) ==
    {[ctype |-> "struct", body |-> << <<"{">> >> \o ms \o << <<"}", ";">> >>] :
        ms \in UNION {[1..n -> BodyLines] : n \in 0..most}}

InitBody ==
    /\ call \in BodyCalls(MaxBodyLines)
    /\ bodyScan = [k |-> 1, sc |-> InitialScan(call.ctype)]
    /\ ret = None
    /\ pc = "body"
    /\ clinfos = <<>>
    /\ relaxed = FALSE
    /\ modes = <<>>
    /\ heap = <<>>
    /\ cache = <<>>
    /\ classes = <<>>
    /\ stack = <<>>
    /\ idx = 1
    /\ heapBase = 0
    /\ results = <<>>
    /\ lines = <<>>
    /\ index = 0
    /\ namespaces = <<>>
    /\ enums = <<>>
    /\ error = ""
    /\ NoScript

\* One iteration of `for line in clinfo.body` (lines 730-782).
BodyLine ==
    /\ pc = "body"
    /\ bodyScan.k <= Len(call.body)
    /\ LET sc == BodyStep(bodyScan.sc, call.body[bodyScan.k], ReservedGroupNames)
       IN  /\ bodyScan' = [k |-> bodyScan.k + 1, sc |-> sc]
           /\ pc' = IF sc.st = "ok" THEN "body" ELSE sc.st
    /\ UNCHANGED <<clinfos, relaxed, modes, heap, cache, classes, stack, idx, heapBase,
                   results, scanVars, call, ret, toolVars>>

\* The end of the loop: the two checks, then the fields go into the Class
\* (lines 784-798).
BodyReturn ==
    /\ pc = "body"
    /\ bodyScan.k > Len(call.body)
    /\ LET sc == BodyEnd(bodyScan.sc)
       IN  /\ pc' = IF sc.st = "ok" THEN "extracted" ELSE sc.st
           /\ ret' = IF sc.st = "ok" THEN Some(sc.fields) ELSE None
    /\ UNCHANGED <<clinfos, relaxed, modes, heap, cache, classes, stack, idx, heapBase,
                   results, scanVars, call, bodyScan, toolVars>>

SpecBody == InitBody /\ [][BodyLine \/ BodyReturn]_vars

(***************************************************************************)
(* Properties of the field extractor.                                      *)
(***************************************************************************)
\* The group a group-begin line of BodyLines opens, read off the line's text.
GroupOfLine(line) ==
    IF line = GroupBeginNet THEN MkGroup(<<"Net">>, << <<"skip-if-missing">> >>)
    ELSE MkGroup(<<"Ui">>, <<>>)
IsGroupBegin(line) == line \in {GroupBeginNet, GroupBeginUi}
\* The groups begun and not yet ended before line k of the body, outermost
\* first.
RECURSIVE OpenGroupsFrom(_, _, _, _)
OpenGroupsFrom(body, k, j, open) ==
    IF j >= k THEN open
    ELSE IF IsGroupBegin(body[j])
         THEN OpenGroupsFrom(body, k, j + 1, Append(open, GroupOfLine(body[j])))
    ELSE IF body[j] = GroupEndLine /\ Len(open) > 0
         THEN OpenGroupsFrom(body, k, j + 1, SubSeq(open, 1, Len(open) - 1))
    ELSE OpenGroupsFrom(body, k, j + 1, open)
OpenGroupsAt(body, k) == OpenGroupsFrom(body, k, 1, <<>>)
\* An ignore range is open before line k: an ignore-begin line with no
\* ignore-end line after it.
IgnoreOpenAt(body, k) ==
    \E j \in 1..(k - 1) :
        /\ body[j] = IgnoreBeginLine
        /\ \A i \in (j + 1)..(k - 1) : body[i] # IgnoreEndLine

\* C12: the field extraction of a body never ends successfully while a
\* group range or an ignore range of the body is still open.
C12_OpenRangeFatal ==
    (pc = "extracted") =>
        /\ OpenGroupsAt(call.body, Len(call.body) + 1) = <<>>
        /\ ~IgnoreOpenAt(call.body, Len(call.body) + 1)
        /\ bodyScan.sc.groups = <<>>
        /\ ~bodyScan.sc.ignore

\* C12 witness: the body loop has run to the end of a body that holds a
\* field inside a group that is never ended, and the extraction has ended
\* with the fatal error.
C12_Witness ==
    /\ pc = "fatal"
    /\ bodyScan.k = Len(call.body) + 1
    /\ bodyScan.sc.st = "ok"
    /\ Len(bodyScan.sc.fields.fields) = 1
    /\ OpenGroupsAt(call.body, Len(call.body) + 1)
          = <<MkGroup(<<"Net">>, << <<"skip-if-missing">> >>)>>
    /\ ~IgnoreOpenAt(call.body, Len(call.body) + 1)

\* The field the step has just registered.
NewField == bodyScan'.sc.fields.fields[Len(bodyScan'.sc.fields.fields)]
Registers ==
    /\ pc = "body"
    /\ bodyScan'.sc.st = "ok"
    /\ Len(bodyScan'.sc.fields.fields) = Len(bodyScan.sc.fields.fields) + 1

WellFormed(fc) ==
    /\ \A i, j \in 1..Len(fc.fields) : i # j => fc.fields[i].name # fc.fields[j].name
    /\ DOMAIN fc.per_name = {fc.fields[i].name : i \in 1..Len(fc.fields)}
    /\ \A i \in 1..Len(fc.fields) : fc.per_name[fc.fields[i].name] = fc.fields[i]
\* The member name a field line of BodyLines declares.
FieldNameOfLine(line) == IF line = FloatY THEN "y" ELSE "x"
\* The step is at a field line, outside every ignore range, whose member
\* name the collection already holds.
AddsDuplicate ==
    /\ pc = "body"
    /\ bodyScan.k <= Len(call.body)
    /\ call.body[bodyScan.k] \in {IntX, FloatY, FloatX}
    /\ ~IgnoreOpenAt(call.body, bodyScan.k)
    /\ \E i \in 1..Len(bodyScan.sc.fields.fields) :
          bodyScan.sc.fields.fields[i].name = FieldNameOfLine(call.body[bodyScan.k])

\* C16: in every state the FieldCollection of the extraction, and that of
\* every Class object, holds pairwise distinct names and a per_name index of
\* exactly its fields; a step that adds a name already present ends fatally
\* and leaves the collection as it was.
C16_FieldNamesUnique ==
    /\ [](/\ (pc \in {"body", "extracted"}) => WellFormed(bodyScan.sc.fields)
          /\ \A h \in 1..Len(heap) : WellFormed(heap[h].fields))
    /\ [][AddsDuplicate =>
             /\ pc' = "fatal"
             /\ bodyScan'.sc.fields = bodyScan.sc.fields]_vars

\* C16 witness: the extraction has ended fatally at a second field line named
\* x, the collection still holding the first x alone.
C16_Witness ==
    /\ pc = "fatal"
    /\ bodyScan.sc.st = "fatal"
    /\ call.body[bodyScan.k - 1] = FloatX
    /\ Len(bodyScan.sc.fields.fields) = 1
    /\ bodyScan.sc.fields.fields[1].name = "x"
    /\ bodyScan.sc.fields.fields[1].vtype = <<"int">>

\* The body loop is at a line it meets with the ignore flag set and which
\* is not the ignore-end line.
AtIgnoredLine ==
    /\ pc = "body"
    /\ bodyScan.k <= Len(call.body)
    /\ bodyScan.sc.ignore
    /\ call.body[bodyScan.k] # IgnoreEndLine

\* C26 (as stated): a line met while the ignore flag is set is dropped: the
\* step over it registers no field and changes neither the visibility, nor
\* the brace depth, nor the stack of open groups.
C26_IgnoredLineDropped ==
    [][AtIgnoredLine =>
          /\ bodyScan'.sc.fields = bodyScan.sc.fields
          /\ bodyScan'.sc.visibility = bodyScan.sc.visibility
          /\ bodyScan'.sc.scope_counter = bodyScan.sc.scope_counter
          /\ bodyScan'.sc.groups = bodyScan.sc.groups]_vars

\* C26, what the loop does: the step over such a line registers no field and
\* changes neither the visibility nor the brace depth; a group macro on the
\* line has acted before the ignore flag is looked at.
C26_IgnoredLineKeepsFields ==
    [][AtIgnoredLine =>
          /\ bodyScan'.sc.fields = bodyScan.sc.fields
          /\ bodyScan'.sc.visibility = bodyScan.sc.visibility
          /\ bodyScan'.sc.scope_counter = bodyScan.sc.scope_counter]_vars

(***************************************************************************)
(* The field extractor on bodies that hold braces: nested blocks, access   *)
(* specifiers, and the opening brace of the entity on the header line or   *)
(* on the line after it.                                                   *)
(***************************************************************************)
\* Number of lines between the opening brace and the closing marker.
MaxNestedLines == 4

OpenLine == <<"{">>
CloseLine == <<"}">>
\* `void f() { if (a) {`
TwoOpenLine ==
    <<"void", SP, "f", "(", ")", SP, "{", SP, "if", SP, "(", "a", ")", SP, "{">>
\* `} void g() {}`
ReopenLine == <<"}", SP, "void", SP, "g", "(", ")", SP, "{", "}">>
PrivateLine == <<"private", ":">>
NestedLines == {OpenLine, CloseLine, TwoOpenLine, ReopenLine, PrivateLine, IntX, FloatY}
\* clinfo.body is lines[start + 1 : end] (line 541): with the opening brace
\* on the header line the body begins at the first member line, with the
\* brace on the next line it begins at the brace.
NestedCalls(most) ==
    {[ctype |-> "struct", brace |-> b,
      body |-> (IF b = "header" THEN <<>> ELSE <<OpenLine>>) \o ms \o << <<"}", ";">> >>] :
        b \in {"header", "next"},
        ms \in UNION {[1..n -> NestedLines] : n \in 0..most}}

InitNested ==
    /\ call \in NestedCalls(MaxNestedLines)
    /\ bodyScan = [k |-> 1, sc |-> InitialScan(call.ctype)]
    /\ ret = None
    /\ pc = "body"
    /\ clinfos = <<>>
    /\ relaxed = FALSE
    /\ modes = <<>>
    /\ heap = <<>>
    /\ cache = <<>>
    /\ classes = <<>>
    /\ stack = <<>>
    /\ idx = 1
    /\ heapBase = 0
    /\ results = <<>>
    /\ lines = <<>>
    /\ index = 0
    /\ namespaces = <<>>
    /\ enums = <<>>
    /\ error = ""
    /\ NoScript

SpecNested == InitNested /\ [][BodyLine \/ BodyReturn]_vars

\* The brace depth at line k of the body: 0 at the start of the body, +1 for
\* every opening brace and -1 for every closing brace up to and on line k.
BraceDepthAt(body, k) == OpenBraces(SubSeq(body, 1, k))
\* The step over the current line adds a field or changes the visibility.
LineActs ==
    \/ bodyScan'.sc.fields # bodyScan.sc.fields
    \/ bodyScan'.sc.visibility # bodyScan.sc.visibility

\* C27 (as stated): a body line adds a field, or changes the visibility,
\* only if the brace depth at that line is exactly 1: member lines and
\* access-specifier lines of nested types and blocks never act.
C27_ActsAtDepthOne ==
    [][(pc = "body" /\ bodyScan.k <= Len(call.body) /\ LineActs)
          => BraceDepthAt(call.body, bodyScan.k) = 1]_vars

\* C27, what the loop does: a line acts only if scope_counter is 1 at it,
\* where scope_counter moves by one for a LINE that holds an opening brace
\* and by one for a line that holds a closing brace, however many it holds.
C27_ActsAtCounterOne ==
    [][(pc = "body" /\ bodyScan.k <= Len(call.body) /\ LineActs)
          => bodyScan'.sc.scope_counter = 1]_vars

\* The same entity with the opening brace on the line after the header.
BraceOnNextLine == ScanBody(call.ctype, <<OpenLine>> \o call.body, ReservedGroupNames)

\* The entity has its opening brace on the header line, is brace-balanced
\* (the body closes one brace more than it opens: the one of the header
\* line) and is accepted with the brace on the next line.
HeaderBraceBalanced ==
    /\ call.brace = "header"
    /\ OpenBraces(call.body) = -1
    /\ BraceOnNextLine.st = "ok"

\* C30 (as stated): the extraction of a brace-balanced entity whose opening
\* brace is on the header line ends without a fatal error and with the same fields as with the brace on
\* the next line.
C30_BraceOnHeaderLine ==
    (HeaderBraceBalanced /\ pc # "body")
        => (pc = "extracted" /\ ret = Some(BraceOnNextLine.fields))

\* C30, what the loop does: with the opening brace on the header line, and
\* no line holding two braces of a kind, a closing brace takes scope_counter
\* below 0 and the extraction is fatal.
C30_BraceOnHeaderLineFatal ==
    (/\ HeaderBraceBalanced
     /\ \A k \in 1..Len(call.body) :
            CountTok(call.body[k], "{") <= 1 /\ CountTok(call.body[k], "}") <= 1
     /\ pc # "body") => pc = "fatal"

\* The loop and ScanBody agree on a body with the brace on the next line.
NestedAsScanBody ==
    (call.brace = "next" /\ pc # "body") =>
        LET sb == ScanBody(call.ctype, call.body, ReservedGroupNames)
        IN  IF sb.st = "ok" THEN pc = "extracted" /\ ret = Some(sb.fields)
            ELSE pc = sb.st

(***************************************************************************)
(* __create_enum, line by line, and the test of the top loop of parse()    *)
(* that puts the Enum into the result.                                     *)
(***************************************************************************)
\* Number of lines between the opening brace and the closing marker.
MaxEnumLines == 3

RedLine == <<"Red", ",">>
GreenLine == <<"Green", SP, "=", SP, "2", ",">>
BlueLine == <<"Blue">>
BlankLine == <<>>
IndentLine == <<SP, SP>>
EnumLines == {RedLine, GreenLine, BlueLine, BlankLine, IndentLine}
\* The scanned record of `enum class Color`, named by an enum macro call.
EnumCalls(most) ==
    {[id |-> MkIdentifier(<<"Color">>, <<"Color">>, "enum", None, <<>>),
      body |-> <<OpenLine>> \o ms \o << <<"}", ";">> >>] :
        ms \in UNION {[1..n -> EnumLines] : n \in 0..most}}

\* Enum (dataclass): id, namespaces, values, file.
MkEnum(id, nss, values, file) ==
    [id |-> id, namespaces |-> nss, values |-> values, file |-> file]

\* values[name] = val on a dict kept as the list of its items in insertion
\* order.
DictSet(values, name, val) ==
    IF \E k \in 1..Len(values) : values[k].name = name
    THEN [k \in 1..Len(values) |->
             IF values[k].name = name THEN [name |-> name, val |-> val] ELSE values[k]]
    ELSE Append(values, [name |-> name, val |-> val])

\* One iteration of the loop of __create_enum (lines 649-658).
EnumStep(values, rawline) ==
    LET line == Strip(StripTok(rawline, ","))
        splt == Split1(line, "=")
    IN  IF \E f \in {"{", "}", "(", ")", ";"} : HasTok(line, f) THEN values
        ELSE DictSet(values, Strip(splt[1]),
                     IF Len(splt) > 1 THEN Some(Strip(splt[2])) ELSE None)

InitEnum ==
    /\ call \in EnumCalls(MaxEnumLines)
    /\ bodyScan = [k |-> 1, values |-> <<>>]
    /\ ret = None
    /\ results = <<>>
    /\ pc = "enum"
    /\ clinfos = <<>>
    /\ relaxed = FALSE
    /\ modes = <<>>
    /\ heap = <<>>
    /\ cache = <<>>
    /\ classes = <<>>
    /\ stack = <<>>
    /\ idx = 1
    /\ heapBase = 0
    /\ lines = <<>>
    /\ index = 0
    /\ namespaces = <<>>
    /\ enums = <<>>
    /\ error = ""
    /\ NoScript

\* One iteration of `for line in clinfo.body`.
EnumLine ==
    /\ pc = "enum"
    /\ bodyScan.k <= Len(call.body)
    /\ bodyScan' = [k |-> bodyScan.k + 1,
                    values |-> EnumStep(bodyScan.values, call.body[bodyScan.k])]
    /\ UNCHANGED <<clinfos, relaxed, modes, heap, cache, classes, stack, pc, idx, heapBase,
                   results, scanVars, call, ret, toolVars>>

\* `return Enum(...)` (line 660), then `if enum.values: classes.add(enum)`
\* (lines 406-407): `results` is the list of enums of the collection.
EnumReturn ==
    /\ pc = "enum"
    /\ bodyScan.k > Len(call.body)
    /\ ret' = Some(MkEnum(call.id, <<>>, bodyScan.values, None))
    /\ results' = IF Len(bodyScan.values) > 0
                  THEN Append(results, MkEnum(call.id, <<>>, bodyScan.values, None))
                  ELSE results
    /\ pc' = "returned"
    /\ UNCHANGED <<clinfos, relaxed, modes, heap, cache, classes, stack, idx, heapBase,
                   scanVars, call, bodyScan, toolVars>>

SpecEnum == InitEnum /\ [][EnumLine \/ EnumReturn]_vars

\* The body declares an enumerator: it holds a line other than a brace line
\* and a blank line.
DeclaresEnumerator(body) ==
    \E k \in 1..Len(body) : body[k] \in {RedLine, GreenLine, BlueLine}

\* C28 (as stated): the enum is in the result only if its body declares an
\* enumerator (an enum whose body holds only brace lines and blank lines is
\* discarded), and no Enum of the result has an enumerator of empty name.
C28_EnumNeedsEnumerator ==
    pc = "returned" =>
        /\ Len(results) > 0 => DeclaresEnumerator(call.body)
        /\ \A r \in 1..Len(results) : \A k \in 1..Len(results[r].values) :
              results[r].values[k].name # <<>>

\* C28, what the code does: the enum is in the result exactly when some
\* body line holds none of the characters { } ( ) ; -- a blank line is such
\* a line, and registers an enumerator of empty name.
C28_EnumNeedsPlainLine ==
    pc = "returned" =>
        (Len(results) > 0 <=>
            \E k \in 1..Len(call.body) :
                \A f \in {"{", "}", "(", ")", ";"} : ~HasTok(call.body[k], f))

(***************************************************************************)
(* for_each.py: run commands in directories.                               *)
(*                                                                         *)
(* The working directory holds at most the two entries a and b, each a     *)
(* directory, a plain file or absent; a path is named by its entry, so     *)
(* Path(wcard).resolve() is the entry and only the pattern remembers       *)
(* whether it was spelled absolute.  The working directory has no          *)
(* subdirectories below a and b, where rglob and glob yield the same       *)
(* paths, so --recursive is not an input.  Other processes may remove an   *)
(* entry while the script runs.                                            *)
(***************************************************************************)
\* Bound on the number of values given to --directories.
MaxDirectories == 2

DirectoryEntries == {"a", "b"}

\* parse_arguments() (lines 6-73): the options that the run reads.  The
\* values of --directories are a, b, /cwd/a, /cwd/b and *.
ForEachArguments ==
    LET Wildcards ==
            {[name |-> n, absolute |-> ab] : n \in DirectoryEntries, ab \in BOOLEAN}
                \cup {[name |-> "*", absolute |-> FALSE]}
    IN  {[cmds |-> c, directories |-> d, safe |-> sf, yes |-> y,
          skip_if_missing |-> sk, ignore_cmd_errors |-> ig, nested |-> ne] :
            c \in {<<"c1">>, <<"c1", "c2">>},
            d \in UNION {[1..n -> Wildcards] : n \in 1..MaxDirectories},
            sf \in BOOLEAN, y \in BOOLEAN,
            sk \in BOOLEAN, ig \in BOOLEAN, ne \in BOOLEAN}

\* path.exists() and path.is_dir() in the directory tree e.
PathExists(e, path) == path \in DOMAIN e /\ e[path] # "none"
PathIsDir(e, path) == path \in DOMAIN e /\ e[path] = "dir"

\* The paths wdir.glob(wcard) yields in the tree e, in the order `order`
\* in which the scan lists the entries; st is the exception of pathlib for an absolute
\* pattern (line 120).
GlobPaths(e, wcard, order) ==
    IF wcard.absolute THEN [st |-> "NotImplementedError", paths |-> <<>>]
    ELSE [st |-> "ok",
          paths |-> SelectSeq(order,
                        LAMBDA q : PathExists(e, q)
                                   /\ (wcard.name = "*" \/ wcard.name = q))]

\* zip(wildcards, cmds), or every command for every wildcard (lines 128-134).
RECURSIVE NestedPairs(_, _)
NestedPairs(wildcards, cmds) ==
    IF wildcards = <<>> THEN <<>>
    ELSE [k \in 1..Len(cmds) |-> <<wildcards[1], cmds[k]>>]
             \o NestedPairs(Tail(wildcards), cmds)

ZipPairs(wildcards, cmds) ==
    [k \in 1..(IF Len(wildcards) < Len(cmds) THEN Len(wildcards) ELSE Len(cmds))
        |-> <<wildcards[k], cmds[k]>>]

\* `cmds *= len(wildcards)` for a list of one command (lines 87-88).
Repeated(cmds, n) == [k \in 1..(Len(cmds) * n) |-> cmds[((k - 1) % Len(cmds)) + 1]]

InitForEach ==
    /\ args \in ForEachArguments
    /\ env \in [DirectoryEntries -> {"dir", "file", "none"}]
    /\ work = None
    /\ executed = <<>>
    /\ pc = "args"
    /\ clinfos = <<>>
    /\ relaxed = FALSE
    /\ modes = <<>>
    /\ heap = <<>>
    /\ cache = <<>>
    /\ classes = <<>>
    /\ stack = <<>>
    /\ idx = 1
    /\ heapBase = 0
    /\ results = <<>>
    /\ lines = <<>>
    /\ index = 0
    /\ namespaces = <<>>
    /\ enums = <<>>
    /\ error = ""
    /\ call = None
    /\ ret = None
    /\ bodyScan = None

\* What every step of a script leaves alone.
ParserIdle == UNCHANGED <<clinfos, relaxed, modes, heap, cache, classes, stack, idx,
                          heapBase, results, scanVars, callVars>>

\* The module-level statements before the loops (lines 76-94).
ForEachArgs ==
    /\ pc = "args"
    /\ IF args.safe /\ args.yes
       THEN pc' = "fatal" /\ work' = work
       ELSE LET cmds == IF ~args.nested /\ Len(args.cmds) = 1
                        THEN Repeated(args.cmds, Len(args.directories))
                        ELSE args.cmds
            IN  IF ~args.nested /\ Len(cmds) # Len(args.directories)
                THEN pc' = "fatal" /\ work' = work
                ELSE /\ pc' = "wildcard"
                     /\ work' = [todo |-> IF args.nested
                                          THEN NestedPairs(args.directories, cmds)
                                          ELSE ZipPairs(args.directories, cmds),
                                 cmd |-> "", globbed |-> <<>>, path |-> None]
    /\ UNCHANGED <<args, env, executed>>
    /\ ParserIdle

\* process_widlcard up to the call of process_directory or the start of
\* the glob loop (lines 112-120).
ProcessWildcard ==
    /\ pc = "wildcard"
    /\ work.todo # <<>>
    /\ LET wcard == work.todo[1][1]
           cmd == work.todo[1][2]
           rest == [work EXCEPT !.todo = Tail(work.todo), !.cmd = cmd]
       IN  IF PathExists(env, wcard.name)
           THEN IF PathIsDir(env, wcard.name)
                THEN pc' = "directory" /\ work' = [rest EXCEPT !.path = Some(wcard.name)]
                ELSE pc' = "fatal" /\ work' = work
           ELSE \E order \in {<<"a", "b">>, <<"b", "a">>} :
                    LET g == GlobPaths(env, wcard, order)
                    IN  IF g.st # "ok"
                        THEN pc' = g.st /\ work' = work
                        ELSE pc' = "glob" /\ work' = [rest EXCEPT !.globbed = g.paths]
    /\ UNCHANGED <<args, env, executed>>
    /\ ParserIdle

\* One iteration of the glob loop up to the call of process_directory, or
\* the end of the loop (lines 120-125).
GlobNext ==
    /\ pc = "glob"
    /\ IF work.globbed = <<>>
       THEN pc' = "wildcard" /\ work' = work
       ELSE LET path == work.globbed[1]
                rest == [work EXCEPT !.globbed = Tail(work.globbed)]
            IN  IF ~PathIsDir(env, path)
                THEN pc' = "glob" /\ work' = rest
                ELSE pc' = "directory" /\ work' = [rest EXCEPT !.path = Some(path)]
    /\ UNCHANGED <<args, env, executed>>
    /\ ParserIdle

\* process_directory (lines 97-109); the command succeeds or fails.
ProcessDirectory ==
    /\ pc = "directory"
    /\ LET path == Val(work.path)
           back == IF work.globbed = <<>> THEN "wildcard" ELSE "glob"
       IN  IF ~PathExists(env, path)
           THEN /\ pc' = IF ~args.skip_if_missing THEN "fatal" ELSE back
                /\ executed' = executed
           ELSE \E success \in BOOLEAN :
                    /\ executed' = Append(executed, <<work.cmd, path>>)
                    /\ pc' = IF ~success /\ ~args.ignore_cmd_errors
                             THEN "fatal" ELSE back
    /\ work' = [work EXCEPT !.path = None]
    /\ UNCHANGED <<args, env>>
    /\ ParserIdle

\* The loops of lines 128-134 are over.
ForEachExit ==
    /\ pc = "wildcard"
    /\ work.todo = <<>>
    /\ pc' = "exit"
    /\ UNCHANGED toolVars
    /\ ParserIdle

\* Another process removes an entry of the working directory.
EntryRemoved ==
    /\ pc \in {"wildcard", "glob", "directory"}
    /\ \E q \in DirectoryEntries :
           /\ env[q] # "none"
           /\ env' = [env EXCEPT ![q] = "none"]
    /\ UNCHANGED <<args, work, executed, pc>>
    /\ ParserIdle

SpecForEach ==
    InitForEach
        /\ [][ForEachArgs \/ ProcessWildcard \/ GlobNext \/ ProcessDirectory
                 \/ ForEachExit \/ EntryRemoved]_vars

(***************************************************************************)
(* git.py: remove branches, create tags.                                   *)
(*                                                                         *)
(* A branch name and a line of git's output are token sequences: `* main`  *)
(* is <<"*", SP, "main">>.  The repository has the branches dev, feat, fix  *)
(* and main, each absent, merged into main, not merged, or merged and      *)
(* checked out in another worktree (git marks its line with `+`); one      *)
(* branch is checked out here (`*`).  A version tag vA.B.C is <<A, B, C>>.  *)
(***************************************************************************)
BranchNames == <<"dev", "feat", "fix", "main">>

\* The repositories: cur is the branch checked out, st the state of each.
Repositories ==
    {r \in [cur : {"main", "feat"},
            st : [{"dev", "feat", "fix", "main"} ->
                     {"absent", "merged", "unmerged", "worktree"}]] :
        /\ r.st["main"] # "unmerged"
        /\ r.st[r.cur] \in {"merged", "unmerged"}
        /\ r.st["dev"] # "worktree"}

\* The lines git prints for the branches whose state is in `states`:
\* the mark (`*` checked out here, `+` in another worktree), a blank, the
\* name.
BranchLines(repo, states) ==
    LET Mark(b) == IF b = repo.cur THEN "*"
                   ELSE IF repo.st[b] = "worktree" THEN "+" ELSE SP
    IN  Map(LAMBDA b : <<Mark(b), SP, b>>,
            SelectSeq(BranchNames, LAMBDA b : repo.st[b] \in states))

\* stdout.split("\n") without the empty strings: `git branch`, and
\* `git branch --merged main`, which fails when there is no branch main.
GitBranch(repo) ==
    [rc |-> 0, out |-> BranchLines(repo, {"merged", "unmerged", "worktree"})]
GitBranchMerged(repo) ==
    IF repo.st["main"] = "absent" THEN [rc |-> 128, out |-> <<>>]
    ELSE [rc |-> 0, out |-> BranchLines(repo, {"merged", "worktree"})]

\* b.lstrip("* "): drop every leading `*` and blank.
RECURSIVE LStripChars(_, _)
LStripChars(s, chars) ==
    IF Len(s) > 0 /\ s[1] \in chars THEN LStripChars(Tail(s), chars) ELSE s

\* get_branches (lines 82-93), given the finished process.
get_branches_unfiltered(branches, protected_branches) ==
    Map(LAMBDA b : LStripChars(b, {"*", SP}), branches.out)
get_branches(branches, protected_branches) ==
    SelectSeq(Map(LAMBDA b : LStripChars(b, {"*", SP}), branches.out),
              LAMBDA b : ~InList(protected_branches, b))

\* get_merged_branches (lines 96-103), given the finished process.
get_merged_branches(branches) ==
    Map(LAMBDA b : LStripChars(b, {"*", SP}), branches.out)

\* re.search(pat, b) for the patterns used here: `.*`, or a word, which
\* is found where it is a token of b.
ReSearch(pat, b) == pat = ".*" \/ InList(b, pat)

\* Whether `git branch -D b` can delete: b names a branch that is not
\* checked out anywhere.
Deletable(repo, b) ==
    /\ Len(b) = 1
    /\ InList(BranchNames, b[1])
    /\ b[1] # repo.cur
    /\ repo.st[b[1]] \in {"merged", "unmerged"}

\* increase_tag (lines 196-202).
increase_tag(tag, level) ==
    IF level = "major" THEN <<tag[1] + 1, 0, 0>>
    ELSE IF level = "minor" THEN <<tag[1], tag[2] + 1, 0>>
    ELSE <<tag[1], tag[2], tag[3] + 1>>

\* biggest_tag (lines 205-219) of a non-empty list: the tag of the highest
\* score, the last one in the list among tags of one score.
biggest_tag(tags) ==
    LET TagScore(t) == t[1] * 1000000 + t[2] * 1000 + t[3]
        best == CHOOSE k \in 1..Len(tags) :
                    /\ \A j \in 1..Len(tags) : TagScore(tags[j]) <= TagScore(tags[k])
                    /\ \A j \in (k + 1)..Len(tags) : TagScore(tags[j]) # TagScore(tags[k])
    IN  tags[best]

\* Bound on the number of projects given to --create-tag; project i is
\* the i-th directory.
MaxProjects == 3

\* What add_tag finds in a project: whether it is a directory, the tag of
\* the current commit, all tags, whether the last commit message holds
\* `Unfreeze`, and of <project>/CMakeLists.txt whether it is a file, what
\* follows `GIT_TAG` in it and whether its version macro holds the latest tag.
ProjectStates ==
    {[is_dir |-> FALSE, exact |-> None, tags |-> <<>>, unfreeze |-> FALSE,
      cmake |-> FALSE, git_tag |-> "", macro |-> FALSE],
     [is_dir |-> TRUE, exact |-> None, tags |-> <<>>, unfreeze |-> FALSE,
      cmake |-> FALSE, git_tag |-> "", macro |-> FALSE],
     [is_dir |-> TRUE, exact |-> None, tags |-> << <<1, 2, 3>>, <<1, 10, 0>> >>,
      unfreeze |-> FALSE, cmake |-> TRUE, git_tag |-> "main", macro |-> TRUE],
     [is_dir |-> TRUE, exact |-> None, tags |-> << <<0, 9, 9>> >>,
      unfreeze |-> FALSE, cmake |-> TRUE, git_tag |-> "", macro |-> TRUE],
     [is_dir |-> TRUE, exact |-> Some(<<2, 0, 0>>), tags |-> << <<2, 0, 0>> >>,
      unfreeze |-> FALSE, cmake |-> TRUE, git_tag |-> "main", macro |-> TRUE],
     [is_dir |-> TRUE, exact |-> None, tags |-> << <<1, 2, 3>> >>,
      unfreeze |-> TRUE, cmake |-> TRUE, git_tag |-> "main", macro |-> FALSE]}

\* args.level: the default is the string "fix", a sequence of three
\* characters; a given --level is a list of strings.
LevelDefault == <<"f", "i", "x">>

ProtectedDefault == << <<"main">>, <<"master">>, <<"dev">> >>

\* parse_arguments() (lines 9-67) for a run that removes branches and for
\* a run that creates tags.
GitArguments(most) ==
    {[safe |-> sf, yes |-> sf, remote |-> r, remove_branches |-> Some(p),
      protected_branches |-> pr, create_tag |-> <<>>, level |-> LevelDefault] :
        sf \in BOOLEAN, r \in BOOLEAN,
        p \in {<<>>, <<"feat">>, <<"fix", "feat">>, <<"main">>},
        pr \in {ProtectedDefault, << <<"dev">> >>}}
    \cup
    {[safe |-> FALSE, yes |-> FALSE, remote |-> r, remove_branches |-> None,
      protected_branches |-> ProtectedDefault,
      create_tag |-> [i \in 1..n |-> i], level |-> l] :
        r \in BOOLEAN, n \in 0..most,
        l \in {LevelDefault, <<"fix">>, <<"minor">>, <<"major">>, <<"minor", "major">>,
               <<"major", "fix">>, <<"fix", "minor", "major">>}}

\* The repository of the working directory and the projects.
GitEnvironments(a) ==
    IF a.remove_branches # None
    THEN {[is_repo |-> ir, repo |-> rp, projects |-> <<>>] :
              ir \in BOOLEAN, rp \in Repositories}
    ELSE {[is_repo |-> TRUE, repo |-> [cur |-> "main", st |-> [b \in {"dev", "feat", "fix", "main"} |-> "merged"]],
           projects |-> ps] :
              ps \in [1..Len(a.create_tag) -> ProjectStates]}

InitGit ==
    /\ args \in GitArguments(MaxProjects)
    /\ env \in GitEnvironments(args)
    /\ work = None
    /\ executed = <<>>
    /\ pc = "args"
    /\ clinfos = <<>>
    /\ relaxed = FALSE
    /\ modes = <<>>
    /\ heap = <<>>
    /\ cache = <<>>
    /\ classes = <<>>
    /\ stack = <<>>
    /\ idx = 1
    /\ heapBase = 0
    /\ results = <<>>
    /\ lines = <<>>
    /\ index = 0
    /\ namespaces = <<>>
    /\ enums = <<>>
    /\ error = ""
    /\ call = None
    /\ ret = None
    /\ bodyScan = None

\* The module-level statements of lines 70-79.
GitArgs ==
    /\ pc = "args"
    /\ pc' = IF args.safe /\ args.yes THEN "fatal" ELSE "remove_branches"
    /\ UNCHANGED toolVars
    /\ ParserIdle

\* `if args.remove_branches is not None:` up to the loop (lines 106-118).
GetBranches ==
    /\ pc = "remove_branches"
    /\ IF args.remove_branches = None
       THEN pc' = "create_tag" /\ UNCHANGED <<work, executed>>
       ELSE LET given == Val(args.remove_branches)
                patterns == IF given = <<>> THEN <<".*">> ELSE given
                branches == GitBranch(env.repo)
                merged == GitBranchMerged(env.repo)
            IN  IF ~env.is_repo
                THEN /\ pc' = "fatal"
                     /\ executed' = Append(executed, <<"branch">>)
                     /\ work' = work
                ELSE /\ executed' = executed \o << <<"branch">>, <<"branch --merged", "main">> >>
                     /\ IF merged.rc # 0
                        THEN pc' = "fatal" /\ work' = work
                        ELSE /\ pc' = "branches"
                             /\ work' = [patterns |-> patterns,
                                         branches |-> get_branches(branches,
                                                          args.protected_branches),
                                         merged |-> get_merged_branches(merged)]
    /\ UNCHANGED <<args, env>>
    /\ ParserIdle

\* One iteration of `for b in branches` (lines 120-127); the deletion
\* succeeds or fails.
RemoveBranch ==
    /\ pc = "branches"
    /\ work.branches # <<>>
    /\ LET b == work.branches[1]
       IN  IF (\E k \in 1..Len(work.patterns) : ReSearch(work.patterns[k], b))
              /\ InList(work.merged, b)
           THEN \E success \in BOOLEAN :
                    /\ success => Deletable(env.repo, b)
                    /\ executed' = executed \o << <<"branch -D", b, success>> >>
                                     \o (IF success /\ args.remote
                                         THEN << <<"push --delete", b>> >> ELSE <<>>)
                    /\ env' = IF success
                              THEN [env EXCEPT !.repo.st[b[1]] = "absent"]
                              ELSE env
           ELSE UNCHANGED <<env, executed>>
    /\ work' = [work EXCEPT !.branches = Tail(work.branches)]
    /\ UNCHANGED <<args, pc>>
    /\ ParserIdle

\* The loop of lines 120-127 is over.
RemoveDone ==
    /\ pc = "branches"
    /\ work.branches = <<>>
    /\ pc' = "create_tag"
    /\ UNCHANGED toolVars
    /\ ParserIdle

\* Lines 130-132 and 285-290: the projects and their levels.
CreateTag ==
    /\ pc = "create_tag"
    /\ LET projects == args.create_tag
           levels == IF Len(args.level) = 1
                     THEN Repeated(args.level, Len(projects))
                     ELSE args.level
       IN  IF projects = <<>> THEN pc' = "exit" /\ work' = work
           ELSE IF Len(levels) # Len(projects) THEN pc' = "fatal" /\ work' = work
           ELSE /\ pc' = "add_tag"
                /\ work' = [levels |-> levels, i |-> 1, tag |-> None]
    /\ UNCHANGED <<args, env, executed>>
    /\ ParserIdle

\* modify_cmake (lines 135-177) on the project state p: the state after
\* the file is written, whether git add and git commit run, and the
\* value returned.
modify_cmake(p, parent_tag) ==
    IF ~p.cmake THEN [p |-> p, commits |-> FALSE, froze |-> FALSE]
    ELSE LET froze == p.git_tag = "main"
         IN  IF ~froze /\ ~p.macro THEN [p |-> p, commits |-> FALSE, froze |-> FALSE]
             ELSE [p |-> [p EXCEPT !.git_tag = IF ~froze THEN p.git_tag
                                               ELSE IF parent_tag = None THEN "None"
                                               ELSE "parent"],
                   commits |-> TRUE, froze |-> froze]

\* add_tag (lines 222-282) for project i; `fails` is the git command that
\* fails, if any.
AddTag ==
    /\ pc = "add_tag"
    /\ work.i <= Len(args.create_tag)
    /\ LET i == work.i
           p == env.projects[i]
           level == work.levels[1]
           parent_tag == work.tag
           old_tag == IF p.tags # <<>> THEN biggest_tag(p.tags) ELSE <<0, 1, 0>>
           new_tag == increase_tag(old_tag, level)
           m == modify_cmake(p, parent_tag)
           tagged == [m.p EXCEPT !.tags = Append(p.tags, new_tag),
                                 !.exact = Some(new_tag)]
           reverts == m.froze /\ parent_tag # None
           reverted == IF reverts
                       THEN [tagged EXCEPT !.git_tag = "main", !.unfreeze = TRUE,
                                           !.exact = None]
                       ELSE tagged
           Returns(tag) ==
               /\ pc' = "add_tag"
               /\ work' = [work EXCEPT !.i = i + 1, !.tag = Some(tag)]
           Fatal == pc' = "fatal" /\ work' = work
       IN  IF ~p.is_dir
           THEN Fatal /\ UNCHANGED <<env, executed>>
           ELSE IF p.exact # None
           THEN Returns(biggest_tag(<<Val(p.exact)>>)) /\ UNCHANGED <<env, executed>>
           ELSE IF p.unfreeze
           THEN Returns(old_tag) /\ UNCHANGED <<env, executed>>
           ELSE \E fails \in {"none", "commit", "tag", "revert", "push"} :
                    IF fails = "commit" /\ m.commits
                    THEN /\ Fatal
                         /\ env' = [env EXCEPT !.projects[i] = m.p]
                         /\ executed' = executed
                    ELSE IF fails = "tag"
                    THEN /\ Fatal
                         /\ env' = [env EXCEPT !.projects[i] = m.p]
                         /\ executed' = executed
                    ELSE /\ executed' = Append(executed, <<"tag", i, old_tag, new_tag>>)
                         /\ IF fails = "revert" /\ reverts
                            THEN Fatal /\ env' = [env EXCEPT !.projects[i] = tagged]
                            ELSE /\ env' = [env EXCEPT !.projects[i] = reverted]
                                 /\ IF fails = "push" /\ args.remote
                                    THEN Fatal
                                    ELSE Returns(new_tag)
    /\ UNCHANGED args
    /\ ParserIdle

\* The loop of lines 292-294 is over: Convoy.exit_ok().
TagsDone ==
    /\ pc = "add_tag"
    /\ work.i > Len(args.create_tag)
    /\ pc' = "exit"
    /\ UNCHANGED toolVars
    /\ ParserIdle

SpecGit ==
    InitGit
        /\ [][GitArgs \/ GetBranches \/ RemoveBranch \/ RemoveDone \/ CreateTag
                 \/ AddTag \/ TagsDone]_vars

(***************************************************************************)
(* Properties of for_each.py.                                              *)
(***************************************************************************)
\* The next value of --directories names an entry that does not exist.
ListsMissingDirectory ==
    /\ pc = "wildcard"
    /\ work.todo # <<>>
    /\ work.todo[1][1].name \in DirectoryEntries
    /\ ~PathExists(env, work.todo[1][1].name)

\* C19: without --skip-if-missing a listed directory that does not exist
\* ends the run with a fatal error and its command is not executed; with
\* --skip-if-missing the directory is skipped and the run goes on to the
\* remaining directories.
C19_MissingDirectory ==
    [][(ListsMissingDirectory /\ env' = env)
          => /\ executed' = executed
             /\ pc' = IF args.skip_if_missing THEN "glob" ELSE "fatal"]_vars

(***************************************************************************)
(* Properties of git.py.                                                   *)
(***************************************************************************)
\* The patterns in force: `.*` when --remove-branches has no value.
PatternsInForce ==
    IF Val(args.remove_branches) = <<>> THEN <<".*">> ELSE Val(args.remove_branches)

\* This step deletes the local branch b.
DeletesLocally(b) ==
    /\ pc = "branches"
    /\ env.repo.st[b] # "absent"
    /\ env'.repo.st[b] = "absent"

\* C17: with --remove-branches a branch is deleted locally only if it is
\* not in the protected list, matches at least one pattern and is reported
\* as merged into main; the remote deletion of a branch is attempted only
\* right after its local deletion succeeded and only with --remote.
C17_BranchRemoval ==
    /\ [][\A b \in {"dev", "feat", "fix", "main"} :
              DeletesLocally(b)
                  => /\ ~InList(args.protected_branches, <<b>>)
                     /\ \E k \in 1..Len(PatternsInForce) :
                            PatternsInForce[k] \in {".*", b}
                     /\ env.repo.st[b] = "merged"]_vars
    /\ [](\A k \in 1..Len(executed) :
              executed[k][1] = "push --delete"
                  => /\ args.remote
                     /\ k > 1
                     /\ executed[k - 1] = <<"branch -D", executed[k][2], TRUE>>)

\* C17, witness: with --remote, the pattern feat and the default protected
\* list, the merged branch feat was deleted locally and then remotely,
\* and the run went on to its end.
C17_Witness ==
    /\ pc = "exit"
    /\ args.remove_branches = Some(<<"feat">>)
    /\ args.protected_branches = ProtectedDefault
    /\ env.repo.st["feat"] = "absent"
    /\ env.repo.st["fix"] = "merged"
    /\ executed = << <<"branch">>, <<"branch --merged", "main">>,
                     <<"branch -D", <<"feat">>, TRUE>>,
                     <<"push --delete", <<"feat">> >> >>

\* The level the command line gives for project i.
LevelGiven(i) ==
    IF args.level = LevelDefault THEN "fix"
    ELSE IF Len(args.level) = 1 THEN args.level[1]
    ELSE args.level[i]

\* The run stopped at the test of the number of levels (line 289-290).
LevelsRejected ==
    /\ pc = "fatal"
    /\ args.create_tag # <<>>
    /\ work = None

\* C18: with --create-tag, the tag a project gets is its latest tag
\* incremented at the level given for it: the i-th --level when there are
\* as many levels as projects, the one --level when there is one, and
\* fix when --level is omitted, for any number of projects.
C18_LevelPerProject ==
    /\ \A k \in 1..Len(executed) :
           executed[k][1] = "tag"
               => executed[k][4] = increase_tag(executed[k][3], LevelGiven(executed[k][2]))
    /\ LevelsRejected
           => /\ args.level # LevelDefault
              /\ Len(args.level) \notin {1, Len(args.create_tag)}

\* add_tag returns from the project it was called on: the step of AddTag
\* that goes on to the next project.
AddTagReturns ==
    /\ pc = "add_tag"
    /\ pc' = "add_tag"
    /\ work.i <= Len(args.create_tag)
    /\ work'.i = work.i + 1

\* C29 (as stated): a call of add_tag that returns leaves `GIT_TAG main` in
\* the CMakeLists.txt of every project that had it before the call: the
\* reference is frozen only for a project that has a parent tag and is
\* reverted before add_tag returns.
C29_MainReferenceKept ==
    [][AddTagReturns =>
          \A i \in 1..Len(env.projects) :
              env.projects[i].git_tag = "main" => env'.projects[i].git_tag = "main"]_vars

\* C29, the case that holds: the same for a call with a parent tag (a
\* project after the first).
C29_MainReferenceKeptWithParent ==
    [][(AddTagReturns /\ work.tag # None) =>
          \A i \in 1..Len(env.projects) :
              env.projects[i].git_tag = "main" => env'.projects[i].git_tag = "main"]_vars

(***************************************************************************)
(* The candidate loop of parse_class, one iteration at a time: a parent    *)
(* identifier that no scanned entity has is matched against the scanned    *)
(* entities of its name.                                                   *)
(***************************************************************************)
\* Number of scanned entities of the requested name.
MaxCandidates == 2

sPair == <<"Pair">>
TypenameU == <<"typename", SP, "U">>
TypenameV == <<"typename", SP, "V">>
PairOf(a, b) == <<"Pair", "<", a, ",", b, ">">>
\* The scanned entities named Pair: the primary template, partial
\* specializations, a full specialization (`template <>` leaves no template
\* declaration, line 581) and a struct that is no template.
Candidates ==
    {Entity(sPair, Some(TypenameTU), <<>>, FALSE, <<>>),
     Entity(PairOf("T", "int"), Some(TypenameT), <<>>, FALSE, <<>>),
     Entity(PairOf("V", "int"), Some(TypenameV), <<>>, FALSE, <<>>),
     Entity(PairOf("int", "U"), Some(TypenameU), <<>>, FALSE, <<>>),
     Entity(PairOf("int", "float"), None, <<>>, FALSE, <<>>),
     Entity(sPair, None, <<>>, FALSE, <<>>)}
CandidateTables ==
    UNION {{t \in [1..n -> Candidates] :
               \A a, b \in 1..n : a # b => t[a].id.identifier # t[b].id.identifier} :
           n \in 1..MaxCandidates}
\* The parent identifiers asked for (as parse_identifier leaves them, with
\* a blank after each comma).
Requests ==
    {<<"Pair", "<", a, ",", SP, b, ">">> : a \in {"int", "T"}, b \in {"int", "float"}}
        \cup {<<"Pair", "<", "float", ",", SP, "U", ">">>, <<"Pair", "<", "int", ">">>}

\* Lines 347-370: the parent identifier call.pid is in no scanned entity, its
\* name is; max_matches = 0 and pclinfo = None.
InitSelect ==
    /\ clinfos \in CandidateTables
    /\ call \in {[pid |-> pid] : pid \in Requests}
    /\ InfoPerIdentifier(clinfos, call.pid) = 0
    /\ ret = [pclinfo |-> 0, max_matches |-> 0]
    /\ results = <<>>
    /\ idx = 1
    /\ pc = "candidates"
    /\ bodyScan = None
    /\ relaxed = FALSE
    /\ modes = <<>>
    /\ heap = <<>>
    /\ cache = <<>>
    /\ classes = <<>>
    /\ stack = <<>>
    /\ heapBase = 0
    /\ lines = <<>>
    /\ index = 0
    /\ namespaces = <<>>
    /\ enums = <<>>
    /\ error = ""
    /\ NoScript

\* templargs of line 348 and clinfos.per_name[pname] of line 371.
RequestedArguments == Strip(StripTok(Split1(call.pid, "<")[2], ">"))
SameName == InfoPerName(clinfos, Split1(call.pid, "<")[1])

\* One iteration of the loop of lines 371-380 on the entity p that is no
\* template: `continue`.
CandidateSkipped ==
    /\ pc = "candidates"
    /\ idx <= Len(SameName)
    /\ IsNone(clinfos[SameName[idx]].id.templdecl)
    /\ idx' = idx + 1
    /\ UNCHANGED <<clinfos, relaxed, modes, heap, cache, classes, stack, pc, heapBase,
                   results, scanVars, callVars, toolVars>>

\* One iteration on a template: its score is taken (`results` keeps the
\* scores for the properties below) and compared with max_matches.
CandidateScored ==
    /\ pc = "candidates"
    /\ idx <= Len(SameName)
    /\ ~IsNone(clinfos[SameName[idx]].id.templdecl)
    /\ LET matches == template_matches(clinfos[SameName[idx]].id, RequestedArguments)
       IN  IF matches.st # "ok"
           THEN /\ pc' = matches.st
                /\ UNCHANGED <<ret, results, idx>>
           ELSE /\ results' = Append(results, [p |-> SameName[idx], matches |-> matches.n])
                /\ ret' = IF matches.n >= ret.max_matches
                          THEN [pclinfo |-> SameName[idx], max_matches |-> matches.n]
                          ELSE ret
                /\ idx' = idx + 1
                /\ pc' = pc
    /\ UNCHANGED <<clinfos, relaxed, modes, heap, cache, classes, stack, heapBase,
                   scanVars, call, bodyScan, toolVars>>

\* The loop is over (lines 382-389): no candidate is an error, else the
\* candidate is promoted.
CandidatesDone ==
    /\ pc = "candidates"
    /\ idx > Len(SameName)
    /\ pc' = IF ret.pclinfo = 0 THEN "fatal" ELSE "picked"
    /\ UNCHANGED <<clinfos, relaxed, modes, heap, cache, classes, stack, idx, heapBase,
                   results, scanVars, callVars, toolVars>>

SpecSelect ==
    InitSelect /\ [][CandidateSkipped \/ CandidateScored \/ CandidatesDone]_vars

(***************************************************************************)
(* Properties of the candidate loop.                                       *)
(***************************************************************************)
\* The identifier arguments of the candidate p, its declared parameters and
\* the requested arguments, position by position.
CandidateArguments(p) ==
    SplitAll(DropSpaceAfterComma(IdentifierArguments(clinfos[p].id)), ",")
DeclaredParameters(p) == split_template_list(Val(clinfos[p].id.templdecl))
RequestedList == SplitAll(DropSpaceAfterComma(RequestedArguments), ",")
\* The candidate p is disqualified: at some position the two texts differ
\* and the candidate's text is not one of its declared parameters.
Disqualified(p) ==
    \E k \in 1..Len(CandidateArguments(p)) :
        /\ CandidateArguments(p)[k] # RequestedList[k]
        /\ ~InList(DeclaredParameters(p), CandidateArguments(p)[k])
\* The positions where the texts are equal and are no declared parameter.
SpecializedMatches(p) ==
    Cardinality({k \in 1..Len(CandidateArguments(p)) :
        /\ CandidateArguments(p)[k] = RequestedList[k]
        /\ ~InList(DeclaredParameters(p), CandidateArguments(p)[k])})
\* The positions where the texts are equal.
EqualPositions(p) ==
    Cardinality({k \in 1..Len(CandidateArguments(p)) :
        CandidateArguments(p)[k] = RequestedList[k]})

\* C22 (as stated): the score of a candidate is the number of positions
\* where its identifier argument equals the requested argument and is not
\* one of its declared parameters, and the candidate is disqualified (score
\* -1) exactly when at some position the texts differ and the candidate's
\* text is not a declared parameter.
C22_ScoreCountsSpecialized ==
    \A r \in 1..Len(results) :
        /\ (results[r].matches = -1) <=> Disqualified(results[r].p)
        /\ ~Disqualified(results[r].p) =>
              results[r].matches = SpecializedMatches(results[r].p)

\* C22, what the loop computes: -1 exactly for a disqualified candidate, else
\* the number of positions where the two texts are equal, declared parameter
\* or not.
C22_ScoreCountsEqual ==
    \A r \in 1..Len(results) :
        /\ (results[r].matches = -1) <=> Disqualified(results[r].p)
        /\ ~Disqualified(results[r].p) =>
              results[r].matches = EqualPositions(results[r].p)

\* C23 (as stated): when the loop is over the candidate picked is a template
\* that is not disqualified, no candidate scored higher, and every candidate
\* of the same score comes later in scan order.
C23_FirstMaxWins ==
    pc = "picked" =>
        \E r \in 1..Len(results) :
            /\ results[r].p = ret.pclinfo
            /\ results[r].matches >= 0
            /\ \A q \in 1..Len(results) : results[q].matches <= results[r].matches
            /\ \A q \in 1..Len(results) :
                  results[q].matches = results[r].matches => q >= r

\* C23, the parts that hold: the candidate picked is a template that is not
\* disqualified and no candidate scored higher; a struct without a template
\* declaration and a disqualified candidate are never picked.
C23_MaxWins ==
    pc = "picked" =>
        /\ ~IsNone(clinfos[ret.pclinfo].id.templdecl)
        /\ ~Disqualified(ret.pclinfo)
        /\ \E r \in 1..Len(results) :
              /\ results[r].p = ret.pclinfo
              /\ \A q \in 1..Len(results) : results[q].matches <= results[r].matches

\* The loop and PickCandidate agree on the candidate.
SelectsAsPickCandidate ==
    pc = "picked" =>
        PickCandidate(clinfos, Split1(call.pid, "<")[1], RequestedArguments)
            = [st |-> "ok", ci |-> ret.pclinfo]

====
